---------------------------- MODULE Spec2Model ----------------------------
(***************************************************************************)
(* Model of the Cap'n Proto schema document model of code-first-capnp      *)
(* (src/src/capnp_model.rs): the value tree built by add_item / add_field  *)
(* / set_union / add_variant, the duplicate-id validator and the renderer; *)
(* and of the layer that builds that tree from type descriptions           *)
(* (src/src/lib.rs, src/code-first-capnp-macros/src/lib.rs): the two type  *)
(* mappers and the struct and enum builders.                               *)
(*                                                                         *)
(* Text is modelled as strings built with \o, ids are formatted with       *)
(* ToString, so the rendered text is compared byte for byte.               *)
(*                                                                         *)
(* Option<T> is a sequence of length 0 (None) or 1 (Some).                 *)
(* Result<T, ValidationError> is a record [ok, val, err] where val and err *)
(* are sequences of length 0 or 1.                                         *)
(*                                                                         *)
(* CapnpStruct::validate walks a std HashMap to find a conflict, and the   *)
(* iteration order of a HashMap is not fixed (each map is seeded afresh),  *)
(* so validate and everything built on it yields a SET of possible         *)
(* results; an action picks one of them.                                   *)
(***************************************************************************)
EXTENDS Integers, Sequences, FiniteSets, TLC

VARIABLES
    doc,      \* CapnpDocument.items of the document the caller holds
    s,        \* the CapnpStruct the caller holds
    arg,      \* the value a free function or a render method is called on
    result    \* what the last call returned

vars == <<doc, s, arg, result>>

---------------------------------------------------------------------------
(* Bounds of the model *)

MaxId == 1
MaxFields == 2
MaxVariants == 2
MaxGroupFields == 2
MaxLocations == 4
MaxItems == 3
MaxDepth == 2
MaxWidth == 16
MaxShapes == 2
MaxCalls == 5
MaxMacros == 4

---------------------------------------------------------------------------
(* CapnpType *)

Prim(k) == [k |-> k, inner |-> <<>>, name |-> ""]
List(t) == [k |-> "List", inner |-> <<t>>, name |-> ""]
UserDefined(n) == [k |-> "UserDefined", inner |-> <<>>, name |-> n]

\* Mutant: a list renders the name of its element's kind, not the element
CapnpType_render_OneLevel(t) ==
    CASE t.k = "List" ->
            "List(" \o (IF t.inner[1].k = "UserDefined"
                        THEN t.inner[1].name ELSE t.inner[1].k) \o ")"
      [] t.k = "UserDefined" -> t.name
      [] OTHER -> t.k

RECURSIVE CapnpType_render(_)
CapnpType_render(t) ==
    CASE t.k = "Bool" -> "Bool"
      [] t.k = "Int8" -> "Int8"
      [] t.k = "Int16" -> "Int16"
      [] t.k = "Int32" -> "Int32"
      [] t.k = "Int64" -> "Int64"
      [] t.k = "UInt8" -> "UInt8"
      [] t.k = "UInt16" -> "UInt16"
      [] t.k = "UInt32" -> "UInt32"
      [] t.k = "UInt64" -> "UInt64"
      [] t.k = "Float32" -> "Float32"
      [] t.k = "Float64" -> "Float64"
      [] t.k = "Text" -> "Text"
      [] t.k = "Void" -> "Void"
      [] t.k = "List" -> "List(" \o CapnpType_render(t.inner[1]) \o ")"
      [] t.k = "UserDefined" -> t.name

---------------------------------------------------------------------------
(* Constructors *)

CapnpField_new(name, id, field_type) ==
    [name |-> name, id |-> id, field_type |-> field_type]

CapnpUnionVariant_new(name, id, variant_type) ==
    [name |-> name, id |-> id, kind |-> "Type", ty |-> <<variant_type>>,
     fields |-> <<>>]

CapnpUnionVariant_new_group(name, id, fields) ==
    [name |-> name, id |-> id, kind |-> "Group", ty |-> <<>>,
     fields |-> fields]

CapnpUnion_new == [variants |-> <<>>]

CapnpUnion_add_variant(un, variant) ==
    [un EXCEPT !.variants = Append(@, variant)]

CapnpStruct_new(name) == [name |-> name, fields |-> <<>>, union |-> <<>>]

\* Mutant: a field that the struct already holds is not added again
CapnpStruct_add_field_Once(st, field) ==
    IF \E i \in 1..Len(st.fields) : st.fields[i] = field THEN st
    ELSE [st EXCEPT !.fields = Append(@, field)]

CapnpStruct_add_field(st, field) == [st EXCEPT !.fields = Append(@, field)]

CapnpStruct_set_union(st, un) == [st EXCEPT !.union = <<un>>]

CapnpDocument_new == <<>>

CapnpDocument_add_item(items, item) == Append(items, item)

---------------------------------------------------------------------------
(* Results *)

OkUnit == [ok |-> TRUE, val |-> <<>>, err |-> <<>>]
OkText(text) == [ok |-> TRUE, val |-> <<text>>, err |-> <<>>]
DuplicateId(id, locations) ==
    [ok |-> FALSE, val |-> <<>>,
     err |-> <<[id |-> id, locations |-> locations]>>]

---------------------------------------------------------------------------
(* CapnpStruct::validate *)

\* id_locations.entry(id).or_default().push(location)
EntryPush(map, id, location) ==
    IF id \in DOMAIN map
    THEN [map EXCEPT ![id] = Append(@, location)]
    ELSE map @@ (id :> <<location>>)

FieldLocation(field) == "struct field '" \o field.name \o "'"

VariantLocation(variant) == "union variant '" \o variant.name \o "'"

\* Mutant: the location of a group field does not name its variant
GroupFieldLocation_NoVariant(variant, field) ==
    "union group field '" \o field.name \o "'"

GroupFieldLocation(variant, field) ==
    "union group '" \o variant.name \o "' field '" \o field.name \o "'"

RECURSIVE CollectFields(_, _, _)
CollectFields(map, fields, i) ==
    IF i > Len(fields) THEN map
    ELSE CollectFields(
            EntryPush(map, fields[i].id, FieldLocation(fields[i])),
            fields, i + 1)

RECURSIVE CollectGroupFields(_, _, _, _)
CollectGroupFields(map, variant, fields, i) ==
    IF i > Len(fields) THEN map
    ELSE CollectGroupFields(
            EntryPush(map, fields[i].id,
                      GroupFieldLocation(variant, fields[i])),
            variant, fields, i + 1)

\* Mutant: the fields of a group are not collected
CollectVariant_NoGroupFields(map, variant) ==
    EntryPush(map, variant.id, VariantLocation(variant))

\* Mutant: only a Type variant records its own id
CollectVariant_TypeOnlyId(map, variant) ==
    IF variant.kind = "Group"
    THEN CollectGroupFields(map, variant, variant.fields, 1)
    ELSE EntryPush(map, variant.id, VariantLocation(variant))

CollectVariant(map, variant) ==
    LET m1 == EntryPush(map, variant.id, VariantLocation(variant))
    IN  IF variant.kind = "Group"
        THEN CollectGroupFields(m1, variant, variant.fields, 1)
        ELSE m1

RECURSIVE CollectVariants(_, _, _)
CollectVariants(map, variants, i) ==
    IF i > Len(variants) THEN map
    ELSE CollectVariants(CollectVariant(map, variants[i]), variants, i + 1)

EmptyMap == [x \in {} |-> <<>>]

IdLocations(st) ==
    LET m1 == CollectFields(EmptyMap, st.fields, 1)
    IN  IF st.union # <<>>
        THEN CollectVariants(m1, st.union[1].variants, 1)
        ELSE m1

\* The loop over the map returns at the first entry with two locations or
\* more; the map's iteration order is arbitrary.
\* Mutant: only the first two locations of the id are reported
FirstConflict_TwoOnly(map) ==
    LET dup == {id \in DOMAIN map : Len(map[id]) > 1}
    IN  IF dup = {} THEN {OkUnit}
        ELSE {DuplicateId(id, SubSeq(map[id], 1, 2)) : id \in dup}

FirstConflict(map) ==
    LET dup == {id \in DOMAIN map : Len(map[id]) > 1}
    IN  IF dup = {} THEN {OkUnit}
        ELSE {DuplicateId(id, map[id]) : id \in dup}

CapnpStruct_validate(st) == FirstConflict(IdLocations(st))

---------------------------------------------------------------------------
(* Rendering *)

CapnpField_render(field) ==
    field.name \o " @" \o ToString(field.id) \o " :"
        \o CapnpType_render(field.field_type) \o ";"

\* Mutant: the fields of a group are indented like the variant itself
RECURSIVE GroupFieldLines_FourSpaces(_, _)
GroupFieldLines_FourSpaces(fields, i) ==
    IF i > Len(fields) THEN ""
    ELSE "    " \o CapnpField_render(fields[i]) \o "\n"
            \o GroupFieldLines_FourSpaces(fields, i + 1)

RECURSIVE GroupFieldLines(_, _)
GroupFieldLines(fields, i) ==
    IF i > Len(fields) THEN ""
    ELSE "      " \o CapnpField_render(fields[i]) \o "\n"
            \o GroupFieldLines(fields, i + 1)

\* Mutant: a Type variant is rendered without its id
CapnpUnionVariant_render_TypeNoId(variant) ==
    IF variant.kind = "Type"
    THEN variant.name \o " :" \o CapnpType_render(variant.ty[1]) \o ";"
    ELSE IF variant.fields = <<>>
         THEN variant.name \o " :group @" \o ToString(variant.id) \o " {};"
         ELSE variant.name \o " :group @" \o ToString(variant.id) \o " {\n"
                \o GroupFieldLines(variant.fields, 1) \o "    };"

CapnpUnionVariant_render(variant) ==
    IF variant.kind = "Type"
    THEN variant.name \o " @" \o ToString(variant.id) \o " :"
            \o CapnpType_render(variant.ty[1]) \o ";"
    ELSE IF variant.fields = <<>>
         THEN variant.name \o " :group @" \o ToString(variant.id) \o " {};"
         ELSE variant.name \o " :group @" \o ToString(variant.id) \o " {\n"
                \o GroupFieldLines(variant.fields, 1) \o "    };"

\* Mutant: the variants are indented like the fields of the struct
RECURSIVE VariantLines_TwoSpaces(_, _)
VariantLines_TwoSpaces(variants, i) ==
    IF i > Len(variants) THEN ""
    ELSE "  " \o CapnpUnionVariant_render(variants[i]) \o "\n"
            \o VariantLines_TwoSpaces(variants, i + 1)

RECURSIVE VariantLines(_, _)
VariantLines(variants, i) ==
    IF i > Len(variants) THEN ""
    ELSE "    " \o CapnpUnionVariant_render(variants[i]) \o "\n"
            \o VariantLines(variants, i + 1)

CapnpUnion_render(un) ==
    "  union {\n" \o VariantLines(un.variants, 1) \o "  }\n"

\* Mutant: the fields are rendered in ascending order of id
SortedById(fields) ==
    LET n == Len(fields)
        perm == CHOOSE q \in Permutations(1..n) :
                    \A i, j \in 1..n :
                        i < j => \/ fields[q[i]].id < fields[q[j]].id
                                 \/ fields[q[i]].id = fields[q[j]].id /\ q[i] < q[j]
    IN  [i \in 1..n |-> fields[perm[i]]]

RECURSIVE FieldLines_ById(_, _)
FieldLines_ById(fields, i) ==
    IF i > Len(fields) THEN ""
    ELSE "  " \o CapnpField_render(SortedById(fields)[i]) \o "\n"
            \o FieldLines_ById(fields, i + 1)

RECURSIVE FieldLines(_, _)
FieldLines(fields, i) ==
    IF i > Len(fields) THEN ""
    ELSE "  " \o CapnpField_render(fields[i]) \o "\n"
            \o FieldLines(fields, i + 1)

StructText(st) ==
    "struct " \o st.name \o " {\n"
        \o FieldLines(st.fields, 1)
        \o (IF st.union # <<>> THEN CapnpUnion_render(st.union[1]) ELSE "")
        \o "}\n"

\* Mutant: render does not validate
CapnpStruct_render_NoValidate(st) == {OkText(StructText(st))}

\* Mutant: the fields are rendered in the order of a hash map, which differs
\* from call to call
CapnpStruct_render_AnyFieldOrder(st) ==
    LET n == Len(st.fields)
        orders == {[i \in 1..n |-> st.fields[q[i]]] : q \in Permutations(1..n)}
    IN  UNION {IF v.ok
               THEN {OkText(StructText([st EXCEPT !.fields = o])) : o \in orders}
               ELSE {v}
                    : v \in CapnpStruct_validate(st)}

CapnpStruct_render(st) ==
    {IF v.ok THEN OkText(StructText(st)) ELSE v : v \in CapnpStruct_validate(st)}

CapnpItem_render(item) == CapnpStruct_render(item)

---------------------------------------------------------------------------
(* CapnpDocument *)

\* Mutant: the structs are validated from the last one to the first
RECURSIVE ValidateFrom_LastFirst(_, _)
ValidateFrom_LastFirst(items, i) ==
    IF i > Len(items) THEN {OkUnit}
    ELSE UNION {IF v.ok THEN ValidateFrom_LastFirst(items, i + 1) ELSE {v}
                    : v \in CapnpStruct_validate(items[Len(items) + 1 - i])}

RECURSIVE ValidateFrom(_, _)
ValidateFrom(items, i) ==
    IF i > Len(items) THEN {OkUnit}
    ELSE UNION {IF v.ok THEN ValidateFrom(items, i + 1) ELSE {v}
                    : v \in CapnpStruct_validate(items[i])}

\* Mutant: the ids of all structs of the document are collected in one map
RECURSIVE CollectItems(_, _, _)
CollectItems(map, items, i) ==
    IF i > Len(items) THEN map
    ELSE LET m1 == CollectFields(map, items[i].fields, 1)
             m2 == IF items[i].union # <<>>
                   THEN CollectVariants(m1, items[i].union[1].variants, 1)
                   ELSE m1
         IN  CollectItems(m2, items, i + 1)

CapnpDocument_validate_OneIdSpace(items) ==
    FirstConflict(CollectItems(EmptyMap, items, 1))

CapnpDocument_validate(items) == ValidateFrom(items, 1)

\* Mutant: the blank line is written after every item
RECURSIVE RenderFrom_BlankAfterEach(_, _, _)
RenderFrom_BlankAfterEach(items, i, output) ==
    IF i > Len(items) THEN {OkText(output)}
    ELSE UNION {IF r.ok
                THEN RenderFrom_BlankAfterEach(items, i + 1,
                                               output \o r.val[1] \o "\n")
                ELSE {r}
                    : r \in CapnpItem_render(items[i])}

\* for (i, item) in self.items.iter().enumerate(); i is 0-based in the code
RECURSIVE RenderFrom(_, _, _)
RenderFrom(items, i, output) ==
    IF i > Len(items) THEN {OkText(output)}
    ELSE LET out1 == IF i - 1 > 0 THEN output \o "\n" ELSE output
         IN  UNION {IF r.ok THEN RenderFrom(items, i + 1, out1 \o r.val[1])
                    ELSE {r}
                        : r \in CapnpItem_render(items[i])}

CapnpDocument_render(items) ==
    UNION {IF v.ok THEN RenderFrom(items, 1, "") ELSE {v}
                : v \in CapnpDocument_validate(items)}

---------------------------------------------------------------------------
(* The values a caller passes in.  The k-th field of a field list and the  *)
(* k-th variant of a union get the k-th name below; ids are free.          *)

StructNames == {"P", "Q"}
FieldNameAt == <<"a", "b", "c", "d", "e">>
VariantNameAt == <<"v", "w", "x", "y", "z">>
Ids == 0..MaxId

FieldTypeAt(i) ==
    CASE i = 1 -> Prim("UInt64")
      [] i = 2 -> List(Prim("Text"))
      [] OTHER -> Prim("Bool")

VariantTypeAt(i) == IF i = 1 THEN Prim("Void") ELSE UserDefined("P")

Min(a, b) == IF a < b THEN a ELSE b

IdSeqs(k) == [1..k -> Ids]

RECURSIVE MkFieldsFrom(_, _)
MkFieldsFrom(ids, i) ==
    IF i > Len(ids) THEN <<>>
    ELSE <<CapnpField_new(FieldNameAt[i], ids[i], FieldTypeAt(i))>>
            \o MkFieldsFrom(ids, i + 1)

MkFields(ids) == MkFieldsFrom(ids, 1)

\* The variants that can stand at position p and carry m ids
VariantsAt(p, m) ==
    (IF m = 1
     THEN {CapnpUnionVariant_new(VariantNameAt[p], i, VariantTypeAt(p)) : i \in Ids}
     ELSE {})
    \cup {CapnpUnionVariant_new_group(VariantNameAt[p], i, MkFields(g)) :
            i \in Ids, g \in IdSeqs(m - 1)}

\* The variant lists from position p on that carry at most budget ids
RECURSIVE VariantSeqs(_, _)
VariantSeqs(p, budget) ==
    {<<>>} \cup
    (IF p > MaxVariants THEN {}
     ELSE UNION {{<<v>> \o rest : v \in VariantsAt(p, m),
                                  rest \in VariantSeqs(p + 1, budget - m)}
                    : m \in 1..Min(budget, MaxGroupFields + 1)})

Unions(budget) == {[variants |-> vs] : vs \in VariantSeqs(1, budget)}

OptUnions(budget) == {<<>>} \cup {<<x>> : x \in Unions(budget)}

\* The structs with k top-level fields and at most MaxLocations places that
\* carry an id
StructsWith(k) ==
    LET fs == {MkFields(ids) : ids \in IdSeqs(k)}
        uns == OptUnions(MaxLocations - k)
    IN  {[name |-> n, fields |-> f, union |-> un] :
            n \in StructNames, f \in fs, un \in uns}

\* The numbers of top-level fields a struct can have
FieldCounts == 0..Min(MaxFields, MaxLocations)

\* The structs put into documents: valid ones, one with one conflicting id
\* and one with two
DocStructs ==
    LET a0 == CapnpField_new("a", 0, Prim("UInt64"))
        a1 == CapnpField_new("a", 1, Prim("UInt64"))
        b0 == CapnpField_new("b", 0, List(Prim("Text")))
        b1 == CapnpField_new("b", 1, List(Prim("Text")))
        v0 == CapnpUnionVariant_new("v", 0, Prim("Void"))
        w0 == CapnpUnionVariant_new_group("w", 0, <<>>)
        un == CapnpUnion_add_variant(CapnpUnion_add_variant(CapnpUnion_new, v0), w0)
        P == CapnpStruct_new("P")
        Q == CapnpStruct_new("Q")
    IN  { P,
          CapnpStruct_add_field(P, a0),
          CapnpStruct_add_field(Q, a0),
          CapnpStruct_add_field(CapnpStruct_add_field(Q, a1), b0),
          CapnpStruct_set_union(CapnpStruct_add_field(P, a1),
                                CapnpUnion_add_variant(CapnpUnion_new, v0)),
          CapnpStruct_add_field(CapnpStruct_add_field(P, a0), b0),
          CapnpStruct_add_field(CapnpStruct_add_field(Q, a1), b1),
          CapnpStruct_set_union(
              CapnpStruct_add_field(CapnpStruct_add_field(Q, a1), b1), un) }

RECURSIVE DocsOfLen(_)
DocsOfLen(k) ==
    IF k = 0 THEN {CapnpDocument_new}
    ELSE {CapnpDocument_add_item(d, st) : d \in DocsOfLen(k - 1), st \in DocStructs}

---------------------------------------------------------------------------
(* State machine: a caller holds a struct and a document and calls         *)
(* validate and render on them.                                            *)

NoArg == [kind |-> "none"]
NoCall == [op |-> "none", res |-> <<>>]
Returned(op, r) == [op |-> op, res |-> <<r>>]

Init ==
    /\ \/ \E k \in FieldCounts : s \in StructsWith(k) /\ doc = CapnpDocument_new
       \/ \E k \in 0..MaxItems : s = CapnpStruct_new("P") /\ doc \in DocsOfLen(k)
    /\ arg = NoArg
    /\ result = NoCall

\* s.validate()
ValidateStruct ==
    /\ \E r \in CapnpStruct_validate(s) :
            result' = Returned("struct_validate", r)
    /\ UNCHANGED <<doc, s, arg>>

\* s.render()
RenderStruct ==
    /\ \E r \in CapnpStruct_render(s) :
            result' = Returned("struct_render", r)
    /\ UNCHANGED <<doc, s, arg>>

\* doc.validate()
ValidateDocument ==
    /\ \E r \in CapnpDocument_validate(doc) :
            result' = Returned("doc_validate", r)
    /\ UNCHANGED <<doc, s, arg>>

\* doc.render()
RenderDocument ==
    /\ \E r \in CapnpDocument_render(doc) :
            result' = Returned("doc_render", r)
    /\ UNCHANGED <<doc, s, arg>>

Next ==
    \/ ValidateStruct
    \/ RenderStruct
    \/ ValidateDocument
    \/ RenderDocument

Spec == Init /\ [][Next]_vars

---------------------------------------------------------------------------
(* The places of a struct that carry an id, as the specification lists     *)
(* them: every top-level field, then for every union variant the variant   *)
(* itself followed by the fields of its group.                             *)

Place(kind, id, loc) == [kind |-> kind, id |-> id, loc |-> loc]

FieldPlaces(st) ==
    [i \in 1..Len(st.fields) |->
        Place("field", st.fields[i].id,
              "struct field '" \o st.fields[i].name \o "'")]

GroupPlaces(v) ==
    IF v.kind = "Group"
    THEN [i \in 1..Len(v.fields) |->
            Place("group field", v.fields[i].id,
                  "union group '" \o v.name \o "' field '"
                      \o v.fields[i].name \o "'")]
    ELSE <<>>

VariantPlaces(v) ==
    <<Place(IF v.kind = "Group" THEN "group variant" ELSE "type variant",
            v.id, "union variant '" \o v.name \o "'")>> \o GroupPlaces(v)

RECURSIVE Flatten(_)
Flatten(seqs) ==
    IF seqs = <<>> THEN <<>> ELSE Head(seqs) \o Flatten(Tail(seqs))

UnionPlaces(st) ==
    IF st.union = <<>> THEN <<>>
    ELSE Flatten([i \in 1..Len(st.union[1].variants) |->
                    VariantPlaces(st.union[1].variants[i])])

Places(st) == FieldPlaces(st) \o UnionPlaces(st)

PlaceIds(st) == LET pl == Places(st) IN {pl[i].id : i \in 1..Len(pl)}

\* The places with the given id, in order
RECURSIVE LocationsOf(_, _)
LocationsOf(places, id) ==
    IF places = <<>> THEN <<>>
    ELSE (IF Head(places).id = id THEN <<Head(places).loc>> ELSE <<>>)
            \o LocationsOf(Tail(places), id)

\* Another place carries the id of the i-th place
SharedAt(pl, i) == \E j \in 1..Len(pl) : j # i /\ pl[j].id = pl[i].id

DuplicatedIds(st) ==
    LET pl == Places(st) IN {pl[i].id : i \in {j \in 1..Len(pl) : SharedAt(pl, j)}}

Unique(st) == LET pl == Places(st) IN \A i \in 1..Len(pl) : ~SharedAt(pl, i)

InSeq(x, seq) == \E i \in 1..Len(seq) : seq[i] = x

Called(op) == result.op = op
Ret == result.res[1]

---------------------------------------------------------------------------
(* C1: CapnpStruct::validate returns Ok if and only if no id is recorded   *)
(* at more than one place of the struct (top-level fields, the variants'   *)
(* own ids, the fields of the groups); otherwise it returns DuplicateId.   *)

C1_ValidateOkIffUnique ==
    Called("struct_validate") =>
        /\ Ret.ok <=> Unique(s)
        /\ Ret.ok => Ret = OkUnit
        /\ ~Ret.ok => /\ Len(Ret.err) = 1
                      /\ Ret.val = <<>>
                      /\ Ret.err[1].id \in DuplicatedIds(s)

\* validate returned Ok for a struct whose union has a group variant with a
\* field
C1_Witness ==
    /\ Called("struct_validate")
    /\ Ret.ok
    /\ s.union # <<>>
    /\ \E i \in 1..Len(s.union[1].variants) :
            /\ s.union[1].variants[i].kind = "Group"
            /\ s.union[1].variants[i].fields # <<>>

---------------------------------------------------------------------------
(* C2: when validate fails with DuplicateId{id, locations}, locations is   *)
(* exactly the list of the places of the struct whose id is id, in the     *)
(* order of discovery; a top-level field and a union variant that share    *)
(* id 0 give id 0 and the two locations "struct field" and "union variant".*)

FieldAndVariantShareZero ==
    /\ Len(s.fields) = 1
    /\ s.fields[1].id = 0
    /\ s.union # <<>>
    /\ Len(s.union[1].variants) = 1
    /\ s.union[1].variants[1].kind = "Type"
    /\ s.union[1].variants[1].id = 0

C2_LocationsExact ==
    (Called("struct_validate") /\ ~Ret.ok) =>
        /\ Ret.err[1].locations = LocationsOf(Places(s), Ret.err[1].id)
        /\ Len(Ret.err[1].locations) >= 2
        /\ FieldAndVariantShareZero =>
                Ret = DuplicateId(0, << "struct field '" \o s.fields[1].name \o "'",
                                        "union variant '"
                                            \o s.union[1].variants[1].name \o "'" >>)

\* validate failed on an id recorded at three places of three kinds, in a
\* struct that has a place with another id
C2_Witness ==
    /\ Called("struct_validate")
    /\ ~Ret.ok
    /\ Len(Ret.err[1].locations) = 3
    /\ Len(Places(s)) = 4
    /\ Len(s.fields) = 1
    /\ s.fields[1].id = Ret.err[1].id
    /\ s.union # <<>>
    /\ s.union[1].variants[1].id = Ret.err[1].id
    /\ s.union[1].variants[1].kind = "Group"

---------------------------------------------------------------------------
(* C3: the fields of all groups of a union share one id space with each    *)
(* other, with the top-level fields and with the variants; a group field   *)
(* whose id is recorded at another place makes validate fail, and the      *)
(* DuplicateId for that id lists the group field as                        *)
(* "union group '<variant name>' field '<field name>'".                    *)

\* C3 as stated: validate fails with DuplicateId for that very id
C3_Original ==
    Called("struct_validate") =>
        LET pl == Places(s)
        IN  \A i \in 1..Len(pl) :
                (pl[i].kind = "group field" /\ SharedAt(pl, i)) =>
                    /\ ~Ret.ok
                    /\ Ret.err[1].id = pl[i].id
                    /\ InSeq(pl[i].loc, Ret.err[1].locations)

\* C3, amended: validate fails with DuplicateId; the id reported is that id
\* when no other id is recorded at more than one place, and otherwise one
\* of the ids recorded at more than one place; when that id is reported,
\* the group field is listed under its "union group" location.
C3_GroupFieldsShareIdSpace ==
    Called("struct_validate") =>
        LET pl == Places(s)
            dup == DuplicatedIds(s)
        IN  \A i \in 1..Len(pl) :
                (pl[i].kind = "group field" /\ SharedAt(pl, i)) =>
                    /\ ~Ret.ok
                    /\ Ret.err[1].id \in dup
                    /\ dup = {pl[i].id} => Ret.err[1].id = pl[i].id
                    /\ Ret.err[1].id = pl[i].id =>
                            InSeq(pl[i].loc, Ret.err[1].locations)

\* validate failed on an id shared by the fields of two different groups
\* and lists both group fields
C3_Witness ==
    /\ Called("struct_validate")
    /\ ~Ret.ok
    /\ s.union # <<>>
    /\ Len(s.union[1].variants) = 2
    /\ \A i \in 1..2 :
            /\ s.union[1].variants[i].kind = "Group"
            /\ Len(s.union[1].variants[i].fields) = 1
            /\ s.union[1].variants[i].fields[1].id = Ret.err[1].id
            /\ s.union[1].variants[i].id # Ret.err[1].id
            /\ InSeq("union group '" \o s.union[1].variants[i].name \o "' field '"
                        \o s.union[1].variants[i].fields[1].name \o "'",
                     Ret.err[1].locations)

---------------------------------------------------------------------------
(* C4: the own id of a group variant takes part in the id space of the     *)
(* struct; if a top-level field, another variant or a group field has the  *)
(* same id, validate fails and the DuplicateId for that id lists           *)
(* "union variant '<group variant name>'".                                 *)

\* C4 as stated: validate fails with DuplicateId for that very id
C4_Original ==
    Called("struct_validate") =>
        LET pl == Places(s)
        IN  \A i \in 1..Len(pl) :
                (pl[i].kind = "group variant" /\ SharedAt(pl, i)) =>
                    /\ ~Ret.ok
                    /\ Ret.err[1].id = pl[i].id
                    /\ InSeq(pl[i].loc, Ret.err[1].locations)

\* C4, amended as C3: the id reported is that id when it is the only id
\* recorded at more than one place, and whenever that id is reported the
\* locations include "union variant '<group variant name>'".
C4_GroupVariantIdInIdSpace ==
    Called("struct_validate") =>
        LET pl == Places(s)
            dup == DuplicatedIds(s)
        IN  \A i \in 1..Len(pl) :
                (pl[i].kind = "group variant" /\ SharedAt(pl, i)) =>
                    /\ ~Ret.ok
                    /\ Ret.err[1].id \in dup
                    /\ dup = {pl[i].id} => Ret.err[1].id = pl[i].id
                    /\ Ret.err[1].id = pl[i].id =>
                            InSeq(pl[i].loc, Ret.err[1].locations)

\* validate failed on the own id of a group variant, which a field of
\* another group shares, and lists the variant and the group field
C4_Witness ==
    /\ Called("struct_validate")
    /\ ~Ret.ok
    /\ s.fields = <<>>
    /\ s.union # <<>>
    /\ Len(s.union[1].variants) = 2
    /\ s.union[1].variants[1].kind = "Group"
    /\ s.union[1].variants[1].id = Ret.err[1].id
    /\ s.union[1].variants[2].kind = "Group"
    /\ s.union[1].variants[2].id # Ret.err[1].id
    /\ Len(s.union[1].variants[2].fields) = 1
    /\ s.union[1].variants[2].fields[1].id = Ret.err[1].id
    /\ Ret.err[1].locations =
            << "union variant '" \o s.union[1].variants[1].name \o "'",
               "union group '" \o s.union[1].variants[2].name \o "' field '"
                    \o s.union[1].variants[2].fields[1].name \o "'" >>

---------------------------------------------------------------------------
(* C5: id uniqueness is scoped per struct: CapnpDocument::validate returns *)
(* Ok exactly when CapnpStruct::validate returns Ok for every struct of    *)
(* the document taken alone; an id used in two structs is no error.        *)

ValidAlone(st) == CapnpStruct_validate(st) = {OkUnit}

C5_UniquenessPerStruct ==
    Called("doc_validate") =>
        /\ Ret.ok <=> \A i \in 1..Len(doc) : ValidAlone(doc[i])
        /\ (\A i \in 1..Len(doc) : Unique(doc[i])) => Ret = OkUnit

\* validate returned Ok for a document in which two structs use the same id
C5_Witness ==
    /\ Called("doc_validate")
    /\ Ret.ok
    /\ \E i, j \in 1..Len(doc) :
            i < j /\ PlaceIds(doc[i]) \cap PlaceIds(doc[j]) # {}

---------------------------------------------------------------------------
(* C6: rendering validates first: render of a struct, of a document,       *)
(* returns Ok(text) exactly when validate returns Ok on the same value;    *)
(* when validation fails it returns the DuplicateId error and no text.     *)

RenderAgrees(r, validated) ==
    /\ r.ok <=> OkUnit \in validated
    /\ r.ok => Len(r.val) = 1 /\ r.err = <<>>
    /\ ~r.ok => r.val = <<>> /\ Len(r.err) = 1 /\ r \in validated

C6_RenderValidatesFirst ==
    /\ Called("struct_render") => RenderAgrees(Ret, CapnpStruct_validate(s))
    /\ Called("doc_render") => RenderAgrees(Ret, CapnpDocument_validate(doc))

\* render of a document failed with the error of its second struct, after
\* a valid first struct, and returned no text
C6_Witness ==
    /\ Called("doc_render")
    /\ ~Ret.ok
    /\ Ret.val = <<>>
    /\ Len(doc) >= 2
    /\ Unique(doc[1])
    /\ ~Unique(doc[2])

---------------------------------------------------------------------------
(* C7: validate and render of a document stop at the first struct, in      *)
(* document order, that fails validation: the DuplicateId returned is one  *)
(* produced by that struct, also when later structs fail as well, and      *)
(* valid structs before it do not prevent the failure.                     *)

C7_FirstFailingStruct ==
    (Called("doc_validate") \/ Called("doc_render")) =>
        /\ (\E i \in 1..Len(doc) : ~Unique(doc[i])) => ~Ret.ok
        /\ ~Ret.ok =>
            \E i \in 1..Len(doc) :
                /\ ~Unique(doc[i])
                /\ \A j \in 1..(i - 1) : Unique(doc[j])
                /\ Ret \in CapnpStruct_validate(doc[i])
                /\ Ret.err[1].locations =
                        LocationsOf(Places(doc[i]), Ret.err[1].id)

\* render failed on a document whose first struct is valid and whose second
\* and third structs both fail, with errors that differ
C7_Witness ==
    /\ Called("doc_render")
    /\ ~Ret.ok
    /\ Len(doc) = 3
    /\ Unique(doc[1])
    /\ ~Unique(doc[2])
    /\ ~Unique(doc[3])
    /\ CapnpStruct_validate(doc[2]) \cap CapnpStruct_validate(doc[3]) = {}
    /\ Ret \in CapnpStruct_validate(doc[2])

---------------------------------------------------------------------------
(* C8: rendering is deterministic: two calls of CapnpDocument::render on   *)
(* the same valid document return the same text.                           *)

C8_RenderDeterministic ==
    [][(Called("doc_render") /\ Ret.ok /\ result'.op = "doc_render")
            => result' = result]_vars

\* render returned text for a document of several structs, one of them with
\* two fields and a union
C8_Witness ==
    /\ Called("doc_render")
    /\ Ret.ok
    /\ Len(doc) >= 2
    /\ \E i \in 1..Len(doc) : Len(doc[i].fields) = 2
    /\ \E i \in 1..Len(doc) : doc[i].union # <<>>

---------------------------------------------------------------------------
(* C9: the text of a document is the renderings of its items in insertion  *)
(* order with exactly one blank line between consecutive items and no      *)
(* blank line before the first or after the last; no items, empty text.    *)

ItemText(st) == (CHOOSE r \in CapnpItem_render(st) : r.ok).val[1]

RECURSIVE JoinItems(_)
JoinItems(texts) ==
    IF texts = <<>> THEN ""
    ELSE IF Len(texts) = 1 THEN texts[1]
    ELSE texts[1] \o "\n" \o JoinItems(Tail(texts))

\* The positions where an empty line stands: a line end followed by another
BlankLines(text) ==
    {i \in 1..(Len(text) - 1) : SubSeq(text, i, i + 1) = "\n\n"}

C9_BlankLineBetweenItems ==
    (Called("doc_render") /\ Ret.ok) =>
        LET text == Ret.val[1]
        IN  /\ text = JoinItems([i \in 1..Len(doc) |-> ItemText(doc[i])])
            /\ doc = <<>> => text = ""
            /\ doc # <<>> =>
                /\ SubSeq(text, 1, 1) # "\n"
                /\ SubSeq(text, Len(text) - 1, Len(text)) # "\n\n"
                /\ Cardinality(BlankLines(text)) = Len(doc) - 1
                /\ \A i \in BlankLines(text) :
                        \E k \in 1..(Len(doc) - 1) :
                            i = Len(JoinItems([j \in 1..k |-> ItemText(doc[j])]))

\* render returned the text of a document of three structs
C9_Witness ==
    /\ Called("doc_render")
    /\ Ret.ok
    /\ Len(doc) = 3
    /\ doc[1] # doc[2]

---------------------------------------------------------------------------
(* C10: a valid struct renders as the line "struct <Name> {", one line     *)
(* "  <name> @<id> :<type>;" per top-level field in insertion order (not   *)
(* sorted by id), the union block if a union is set, and the line "}";     *)
(* without fields and union it is exactly "struct <Name> {\n}\n".          *)

\* The lines of a text, each ended by a line feed
LineFeeds(text) == {i \in 1..Len(text) : SubSeq(text, i, i) = "\n"}

Lines(text) ==
    LET feeds == LineFeeds(text)
        \* the position of the k-th line feed, 0 for k = 0
        feed == [k \in 0..Cardinality(feeds) |->
                    IF k = 0 THEN 0
                    ELSE CHOOSE i \in feeds :
                            Cardinality({j \in feeds : j < i}) = k - 1]
    IN  [k \in 1..Cardinality(feeds) |->
            SubSeq(text, feed[k - 1] + 1, feed[k] - 1)]

EndsWithLineFeed(text) ==
    Len(text) > 0 /\ SubSeq(text, Len(text), Len(text)) = "\n"

FieldLine(f) ==
    "  " \o f.name \o " @" \o ToString(f.id) \o " :"
        \o CapnpType_render(f.field_type) \o ";"

C10_StructLayout ==
    (Called("struct_render") /\ Ret.ok) =>
        LET text == Ret.val[1]
            ls == Lines(text)
            n == Len(s.fields)
            ub == IF s.union = <<>> THEN <<>>
                  ELSE Lines(CapnpUnion_render(s.union[1]))
        IN  /\ EndsWithLineFeed(text)
            /\ Len(ls) = n + Len(ub) + 2
            /\ ls[1] = "struct " \o s.name \o " {"
            /\ \A i \in 1..n : ls[1 + i] = FieldLine(s.fields[i])
            /\ s.union # <<>> =>
                    /\ Len(ub) >= 2
                    /\ ub[1] = "  union {"
                    /\ SubSeq(ls, n + 2, n + 1 + Len(ub)) = ub
            /\ ls[Len(ls)] = "}"
            /\ (n = 0 /\ s.union = <<>>) =>
                    text = "struct " \o s.name \o " {\n}\n"

\* render returned the text of a struct with a union and two fields whose
\* ids are not in ascending order
C10_Witness ==
    /\ Called("struct_render")
    /\ Ret.ok
    /\ Len(s.fields) = 2
    /\ s.fields[1].id > s.fields[2].id
    /\ s.union # <<>>

---------------------------------------------------------------------------
(* The render methods called on their own: CapnpType::render,              *)
(* CapnpField::render, CapnpUnionVariant::render and CapnpUnion::render    *)
(* return a String and do not validate.                                    *)

Arg(kind, val) == [kind |-> kind, val |-> val]

Primitives ==
    {"Bool", "Int8", "Int16", "Int32", "Int64", "UInt8", "UInt16", "UInt32",
     "UInt64", "Float32", "Float64", "Text", "Void"}

TypeNames == {"P", "MyCustomType"}

\* The types with at most d levels of List around a primitive or a name
RECURSIVE TypesUpTo(_)
TypesUpTo(d) ==
    IF d = 0
    THEN {Prim(k) : k \in Primitives} \cup {UserDefined(n) : n \in TypeNames}
    ELSE LET inner == TypesUpTo(d - 1) IN inner \cup {List(t) : t \in inner}

RenderIds == Ids \cup {42}

RenderNames == {"v", "myVariant"}

RenderFields ==
    LET types == TypesUpTo(MaxDepth)
    IN  {CapnpField_new(n, i, t) : n \in RenderNames, i \in RenderIds, t \in types}

\* The field lists a group is built from
GroupFieldPool ==
    {CapnpField_new("id", 0, Prim("UInt64")),
     CapnpField_new("name", 1, Prim("Text")),
     CapnpField_new("tags", 10, List(List(Prim("UInt32"))))}

RECURSIVE GroupFieldSeqs(_)
GroupFieldSeqs(k) ==
    IF k = 0 THEN {<<>>}
    ELSE LET shorter == GroupFieldSeqs(k - 1)
         IN  shorter \cup {Append(fs, f) : fs \in shorter, f \in GroupFieldPool}

RenderVariants ==
    LET types == TypesUpTo(MaxDepth)
        groups == GroupFieldSeqs(MaxGroupFields)
    IN  {CapnpUnionVariant_new(n, i, t) :
            n \in RenderNames, i \in RenderIds, t \in types}
        \cup {CapnpUnionVariant_new_group(n, i, fs) :
            n \in RenderNames, i \in RenderIds, fs \in groups}

\* The variants the unions rendered on their own are built from
UnionVariantPool ==
    {CapnpUnionVariant_new("active", 0, Prim("Void")),
     CapnpUnionVariant_new("inactive", 1, Prim("Void")),
     CapnpUnionVariant_new("pending", 2, Prim("Void")),
     CapnpUnionVariant_new("text", 10, Prim("Text")),
     CapnpUnionVariant_new_group("emptyGroup", 5, <<>>),
     CapnpUnionVariant_new_group("myGroup", 2,
        <<CapnpField_new("id", 0, Prim("UInt64")),
          CapnpField_new("name", 1, Prim("Text"))>>)}

RECURSIVE RenderUnions(_)
RenderUnions(k) ==
    IF k = 0 THEN {CapnpUnion_new}
    ELSE LET shorter == RenderUnions(k - 1)
         IN  shorter \cup {CapnpUnion_add_variant(un, v) :
                            un \in shorter, v \in UnionVariantPool}

RenderInit ==
    /\ doc = CapnpDocument_new
    /\ s = CapnpStruct_new("P")
    /\ \/ \E t \in TypesUpTo(MaxDepth) : arg = Arg("CapnpType", t)
       \/ \E f \in RenderFields : arg = Arg("CapnpField", f)
       \/ \E v \in RenderVariants : arg = Arg("CapnpUnionVariant", v)
       \/ \E un \in RenderUnions(MaxVariants + 1) : arg = Arg("CapnpUnion", un)
    /\ result = NoCall

\* ty.render()
RenderType ==
    /\ arg.kind = "CapnpType"
    /\ result' = Returned("type_render", CapnpType_render(arg.val))
    /\ UNCHANGED <<doc, s, arg>>

\* field.render()
RenderField ==
    /\ arg.kind = "CapnpField"
    /\ result' = Returned("field_render", CapnpField_render(arg.val))
    /\ UNCHANGED <<doc, s, arg>>

\* variant.render()
RenderVariant ==
    /\ arg.kind = "CapnpUnionVariant"
    /\ result' = Returned("variant_render", CapnpUnionVariant_render(arg.val))
    /\ UNCHANGED <<doc, s, arg>>

\* union.render()
RenderUnion ==
    /\ arg.kind = "CapnpUnion"
    /\ result' = Returned("union_render", CapnpUnion_render(arg.val))
    /\ UNCHANGED <<doc, s, arg>>

RenderNext ==
    \/ RenderType
    \/ RenderField
    \/ RenderVariant
    \/ RenderUnion

RenderSpec == RenderInit /\ [][RenderNext]_vars

---------------------------------------------------------------------------
(* C11: a union renders as the line "  union {", then one entry per        *)
(* variant in insertion order, each indented by four spaces, then the line *)
(* "  }"; a union without variants renders exactly as "  union {\n  }\n",  *)
(* and a union of three Type variants of type Void renders exactly three   *)
(* "<name> @<id> :Void;" lines in the order of the variants.               *)

\* The lines the entry of a variant takes in the union block
EntryLines(v) == Lines("    " \o CapnpUnionVariant_render(v) \o "\n")

IsVoidVariant(v) == v.kind = "Type" /\ v.ty = <<Prim("Void")>>

C11_UnionLayout ==
    Called("union_render") =>
        LET vs == arg.val.variants
            n == Len(vs)
            ls == Lines(Ret)
        IN  /\ EndsWithLineFeed(Ret)
            /\ ls = <<"  union {">>
                        \o Flatten([i \in 1..n |-> EntryLines(vs[i])])
                        \o <<"  }">>
            /\ n = 0 => Ret = "  union {\n  }\n"
            /\ (n = 3 /\ \A i \in 1..n : IsVoidVariant(vs[i])) =>
                    ls = <<"  union {">>
                            \o [i \in 1..n |->
                                    "    " \o vs[i].name \o " @"
                                        \o ToString(vs[i].id) \o " :Void;"]
                            \o <<"  }">>

\* render returned the block of the union of the Void variants active,
\* inactive and pending
C11_Witness ==
    /\ Called("union_render")
    /\ Len(arg.val.variants) = 3
    /\ \A i \in 1..3 : IsVoidVariant(arg.val.variants[i])
    /\ Ret = "  union {\n    active @0 :Void;\n    inactive @1 :Void;\n"
                \o "    pending @2 :Void;\n  }\n"

---------------------------------------------------------------------------
(* C12: a Type variant renders as the field of the same name, id and type  *)
(* does: CapnpUnionVariant::new(name, id, type).render() equals            *)
(* CapnpField::new(name, id, type).render(), the text                      *)
(* "<name> @<id> :<rendered type>;".                                       *)

C12_TypeVariantAsField ==
    (Called("variant_render") /\ arg.val.kind = "Type") =>
        LET v == arg.val
            ty == v.ty[1]
        IN  /\ v = CapnpUnionVariant_new(v.name, v.id, ty)
            /\ Ret = CapnpField_render(CapnpField_new(v.name, v.id, ty))
            /\ Ret = v.name \o " @" \o ToString(v.id) \o " :"
                        \o CapnpType_render(ty) \o ";"

\* render returned the text of a Type variant with a two-digit id and a
\* nested list type
C12_Witness ==
    /\ Called("variant_render")
    /\ arg.val = CapnpUnionVariant_new("myVariant", 42, List(List(Prim("Text"))))
    /\ Ret = "myVariant @42 :List(List(Text));"

---------------------------------------------------------------------------
(* C13: a Group variant with id N renders as "<name> :group @N {};" when   *)
(* it has no fields; otherwise as "<name> :group @N {", one field line per *)
(* field of the group in insertion order, each indented by six spaces, and *)
(* the closing "    };" (without a line feed after it).                    *)

C13_GroupVariantLayout ==
    (Called("variant_render") /\ arg.val.kind = "Group") =>
        LET v == arg.val
            fs == v.fields
            open == v.name \o " :group @" \o ToString(v.id) \o " {"
        IN  /\ fs = <<>> => Ret = open \o "};"
            /\ fs # <<>> =>
                    /\ ~EndsWithLineFeed(Ret)
                    /\ Lines(Ret \o "\n") =
                            <<open>>
                                \o [i \in 1..Len(fs) |-> "    " \o FieldLine(fs[i])]
                                \o <<"    };">>

\* render returned the text of a group of two fields
C13_Witness ==
    /\ Called("variant_render")
    /\ arg.val.kind = "Group"
    /\ Len(arg.val.fields) = 2
    /\ Ret = "myVariant :group @42 {\n      id @0 :UInt64;\n"
                \o "      name @1 :Text;\n    };"

---------------------------------------------------------------------------
(* C14: CapnpType::render gives every primitive its fixed token, a         *)
(* UserDefined type its bare name, and List(T) the text "List(" followed   *)
(* by the rendering of T and ")", at every depth of nesting.               *)

PrimitiveToken ==
    [Bool |-> "Bool", Int8 |-> "Int8", Int16 |-> "Int16", Int32 |-> "Int32",
     Int64 |-> "Int64", UInt8 |-> "UInt8", UInt16 |-> "UInt16",
     UInt32 |-> "UInt32", UInt64 |-> "UInt64", Float32 |-> "Float32",
     Float64 |-> "Float64", Text |-> "Text", Void |-> "Void"]

RECURSIVE ListDepth(_)
ListDepth(t) == IF t.k = "List" THEN 1 + ListDepth(t.inner[1]) ELSE 0

RECURSIVE ElementOf(_)
ElementOf(t) == IF t.k = "List" THEN ElementOf(t.inner[1]) ELSE t

RECURSIVE Repeat(_, _)
Repeat(str, n) == IF n = 0 THEN "" ELSE str \o Repeat(str, n - 1)

C14_TypeTokens ==
    Called("type_render") =>
        LET t == arg.val
            d == ListDepth(t)
            e == ElementOf(t)
            token == IF e.k = "UserDefined" THEN e.name ELSE PrimitiveToken[e.k]
        IN  /\ DOMAIN PrimitiveToken = Primitives
            /\ t.k \in Primitives => Ret = PrimitiveToken[t.k]
            /\ t.k = "UserDefined" => Ret = t.name
            /\ t.k = "List" =>
                    Ret = "List(" \o CapnpType_render(t.inner[1]) \o ")"
            /\ Ret = Repeat("List(", d) \o token \o Repeat(")", d)

\* render returned the text of a list of lists
C14_Witness ==
    /\ Called("type_render")
    /\ arg.val = List(List(Prim("UInt32")))
    /\ Ret = "List(List(UInt32))"

---------------------------------------------------------------------------
(* facet::Shape, as far as src/src/lib.rs reads it.  Result<T, String> is  *)
(* a record [ok, val, err] like the results above, err holding the         *)
(* message.                                                                *)

OkVal(v) == [ok |-> TRUE, val |-> <<v>>, err |-> <<>>]
Err(msg) == [ok |-> FALSE, val |-> <<>>, err |-> <<msg>>]

\* shape.ty with its payload (sub), shape.layout (<<>> is Unsized),
\* shape.type_identifier, shape.type_params, shape.attributes and, for a
\* struct or an enum, the kind and fields or the variants of its definition
EmptyShape ==
    [ty |-> "", sub |-> "", signed |-> FALSE, layout |-> <<>>, inner |-> <<>>,
     type_identifier |-> "", type_params |-> <<>>, attributes |-> <<>>,
     kind |-> "", fields |-> <<>>, variants |-> <<>>]

IntegerShape(size, signed) ==
    [EmptyShape EXCEPT !.ty = "Primitive", !.sub = "Integer",
                       !.signed = signed, !.layout = <<size>>]

FloatShape(size) ==
    [EmptyShape EXCEPT !.ty = "Primitive", !.sub = "Float", !.layout = <<size>>]

UnsizedNumericShape(sub) == [EmptyShape EXCEPT !.ty = "Primitive", !.sub = sub]

\* Boolean, Str, Char, Never
PrimitiveShape(sub) ==
    [EmptyShape EXCEPT !.ty = "Primitive", !.sub = sub, !.layout = <<1>>]

\* Array, Slice
SequenceShape(sub, t) ==
    [EmptyShape EXCEPT !.ty = "Sequence", !.sub = sub, !.inner = <<t>>]

\* Struct, Enum, Opaque, Union
UserShape(sub, type_identifier, type_params) ==
    [EmptyShape EXCEPT !.ty = "User", !.sub = sub,
                       !.type_identifier = type_identifier,
                       !.type_params = type_params]

PointerShape == [EmptyShape EXCEPT !.ty = "Pointer"]

\* Mutant: a 128-bit integer falls back to the widest Cap'n Proto integer
IntegerType_WidestFit(size_bytes, signed) ==
    CASE size_bytes = 1 /\ ~signed -> OkVal(Prim("UInt8"))
      [] size_bytes = 2 /\ ~signed -> OkVal(Prim("UInt16"))
      [] size_bytes = 4 /\ ~signed -> OkVal(Prim("UInt32"))
      [] size_bytes \in {8, 16} /\ ~signed -> OkVal(Prim("UInt64"))
      [] size_bytes = 1 /\ signed -> OkVal(Prim("Int8"))
      [] size_bytes = 2 /\ signed -> OkVal(Prim("Int16"))
      [] size_bytes = 4 /\ signed -> OkVal(Prim("Int32"))
      [] size_bytes \in {8, 16} /\ signed -> OkVal(Prim("Int64"))
      [] OTHER -> Err("Unsupported integer size: " \o ToString(size_bytes)
                        \o " bytes")

\* match (size_bytes, signed)
IntegerType(size_bytes, signed) ==
    CASE size_bytes = 1 /\ ~signed -> OkVal(Prim("UInt8"))
      [] size_bytes = 2 /\ ~signed -> OkVal(Prim("UInt16"))
      [] size_bytes = 4 /\ ~signed -> OkVal(Prim("UInt32"))
      [] size_bytes = 8 /\ ~signed -> OkVal(Prim("UInt64"))
      [] size_bytes = 16 /\ ~signed -> Err("UInt128 not supported in Cap'n Proto")
      [] size_bytes = 1 /\ signed -> OkVal(Prim("Int8"))
      [] size_bytes = 2 /\ signed -> OkVal(Prim("Int16"))
      [] size_bytes = 4 /\ signed -> OkVal(Prim("Int32"))
      [] size_bytes = 8 /\ signed -> OkVal(Prim("Int64"))
      [] size_bytes = 16 /\ signed -> Err("Int128 not supported in Cap'n Proto")
      [] OTHER -> Err("Unsupported integer size: " \o ToString(size_bytes)
                        \o " bytes")

\* match size_bytes
FloatType(size_bytes) ==
    CASE size_bytes = 4 -> OkVal(Prim("Float32"))
      [] size_bytes = 8 -> OkVal(Prim("Float64"))
      [] OTHER -> Err("Unsupported float size: " \o ToString(size_bytes)
                        \o " bytes")

\* Mutant: a list of lists is flattened to the inner list
WrapList_Flatten(inner) ==
    IF ~inner.ok THEN inner
    ELSE IF inner.val[1].k = "List" THEN inner
    ELSE OkVal(List(inner.val[1]))

\* let inner_capnp_type = shape_to_capnp_type(..)?;
\* Ok(CapnpType::List(Box::new(inner_capnp_type)))
WrapList(inner) ==
    IF inner.ok THEN OkVal(List(inner.val[1])) ELSE inner

RECURSIVE shape_to_capnp_type(_)
shape_to_capnp_type(shape) ==
    CASE shape.ty = "Primitive" ->
            (CASE shape.sub \in {"Integer", "Float"} ->
                    IF shape.layout = <<>>
                    THEN Err("Cannot handle unsized numeric types")
                    ELSE IF shape.sub = "Integer"
                         THEN IntegerType(shape.layout[1], shape.signed)
                         ELSE FloatType(shape.layout[1])
               [] shape.sub = "Boolean" -> OkVal(Prim("Bool"))
               [] shape.sub \in {"Str", "Char"} -> OkVal(Prim("Text"))
               [] shape.sub = "Never" ->
                    Err("Never type (!) cannot be represented in Cap'n Proto"))
      [] shape.ty = "Sequence" ->
            WrapList(shape_to_capnp_type(shape.inner[1]))
      [] shape.ty = "User" ->
            (CASE shape.sub \in {"Struct", "Enum"} ->
                    OkVal(UserDefined(shape.type_identifier))
               [] shape.sub = "Opaque" ->
                    (CASE shape.type_identifier = "String" -> OkVal(Prim("Text"))
                       [] shape.type_identifier = "Vec" ->
                            IF shape.type_params # <<>>
                            THEN WrapList(shape_to_capnp_type(shape.type_params[1]))
                            ELSE Err("Vec type without type parameter")
                       [] OTHER -> Err("Unsupported opaque type: "
                                        \o shape.type_identifier))
               [] shape.sub = "Union" -> Err("Union types not yet supported"))
      [] shape.ty = "Pointer" ->
            Err("pointers/smart-pointers not directly supported in Cap'n Proto; wrap/flatten")

---------------------------------------------------------------------------
(* syn::Type, as far as the derive macro reads it                          *)
(* (src/code-first-capnp-macros/src/lib.rs).  The error of the macro is a  *)
(* syn::Error; the model keeps its message.                                *)

\* arguments is "None", "AngleBracketed" or "Parenthesized"
PathSegment(ident, arguments, args) ==
    [ident |-> ident, arguments |-> arguments, args |-> args]

\* syn::GenericArgument
TypeArgument(ty) == [kind |-> "Type", ty |-> <<ty>>]
LifetimeArgument == [kind |-> "Lifetime", ty |-> <<>>]

TypePath(leading_colon, segments) ==
    [kind |-> "Path", leading_colon |-> leading_colon, segments |-> segments]

\* The other variants of syn::Type: Never, Ptr, Reference, Tuple, ...
OtherType(kind) == [kind |-> kind, leading_colon |-> FALSE, segments |-> <<>>]

Ident(name) == TypePath(FALSE, <<PathSegment(name, "None", <<>>)>>)

VecOf(ty) ==
    TypePath(FALSE, <<PathSegment("Vec", "AngleBracketed", <<TypeArgument(ty)>>)>>)

\* syn::Path::is_ident
path_is_ident(path, ident) ==
    /\ ~path.leading_colon
    /\ Len(path.segments) = 1
    /\ path.segments[1].arguments = "None"
    /\ path.segments[1].ident = ident

\* The chain of if path.is_ident(..) { return Ok(..) }
IdentTypes ==
    [String |-> "Text", bool |-> "Bool", u8 |-> "UInt8", u16 |-> "UInt16",
     u32 |-> "UInt32", u64 |-> "UInt64", i8 |-> "Int8", i16 |-> "Int16",
     i32 |-> "Int32", i64 |-> "Int64", f32 |-> "Float32", f64 |-> "Float64"]

\* path.segments.iter().map(|s| s.ident.to_string()).collect().join("::")
RECURSIVE JoinIdents(_, _)
JoinIdents(segments, i) ==
    IF i > Len(segments) THEN ""
    ELSE (IF i > 1 THEN "::" ELSE "") \o segments[i].ident
            \o JoinIdents(segments, i + 1)

\* The first segment is Vec<..> and its first argument is a type
VecWithTypeArgument(path) ==
    /\ Len(path.segments) >= 1
    /\ path.segments[1].ident = "Vec"
    /\ path.segments[1].arguments = "AngleBracketed"
    /\ Len(path.segments[1].args) >= 1
    /\ path.segments[1].args[1].kind = "Type"

RECURSIVE rust_type_to_capnp_model_type(_)
rust_type_to_capnp_model_type(ty) ==
    IF ty.kind = "Path"
    THEN IF \E id \in DOMAIN IdentTypes : path_is_ident(ty, id)
         THEN OkVal(Prim(IdentTypes[ty.segments[1].ident]))
         ELSE IF VecWithTypeArgument(ty)
              THEN LET inner == rust_type_to_capnp_model_type(
                                    ty.segments[1].args[1].ty[1])
                   IN  IF inner.ok THEN OkVal(List(inner.val[1])) ELSE inner
              ELSE OkVal(UserDefined(JoinIdents(ty.segments, 1)))
    ELSE Err("Unsupported type")

---------------------------------------------------------------------------
(* The type mappers applied to type descriptions                           *)

Widths == 1..MaxWidth

BaseShapes ==
    {IntegerShape(w, sg) : w \in Widths, sg \in BOOLEAN}
    \cup {FloatShape(w) : w \in Widths}
    \cup {UnsizedNumericShape(n) : n \in {"Integer", "Float"}}
    \cup {PrimitiveShape(p) : p \in {"Boolean", "Str", "Char", "Never"}}
    \cup {UserShape("Struct", "Person", <<>>), UserShape("Enum", "Status", <<>>),
          UserShape("Union", "Bits", <<>>), UserShape("Opaque", "String", <<>>),
          UserShape("Opaque", "Vec", <<>>), UserShape("Opaque", "HashMap", <<>>),
          PointerShape}

\* The shapes with at most d levels of array, slice or Vec
RECURSIVE ShapesUpTo(_)
ShapesUpTo(d) ==
    IF d = 0 THEN BaseShapes
    ELSE LET inner == ShapesUpTo(d - 1)
         IN  inner \cup {SequenceShape(q, t) : q \in {"Array", "Slice"}, t \in inner}
                   \cup {UserShape("Opaque", "Vec", <<t>>) : t \in inner}

BaseRustTypes ==
    {Ident(n) : n \in DOMAIN IdentTypes
                        \cup {"u128", "i128", "usize", "Vec", "HashMap", "Person"}}
    \cup {OtherType(k) : k \in {"Never", "Ptr", "Reference", "Tuple", "Array", "Slice"}}
    \cup {TypePath(TRUE, <<PathSegment("String", "None", <<>>)>>),
          TypePath(FALSE, <<PathSegment("demo", "None", <<>>),
                            PathSegment("Person", "None", <<>>)>>),
          TypePath(FALSE, <<PathSegment("Vec", "AngleBracketed", <<>>)>>),
          TypePath(FALSE, <<PathSegment("Vec", "AngleBracketed",
                                        <<LifetimeArgument>>)>>)}

\* The types with at most d levels of Vec<..>
RECURSIVE RustTypesUpTo(_)
RustTypesUpTo(d) ==
    IF d = 0 THEN BaseRustTypes
    ELSE LET inner == RustTypesUpTo(d - 1)
         IN  inner \cup {VecOf(t) : t \in inner}

MapInit ==
    /\ doc = CapnpDocument_new
    /\ s = CapnpStruct_new("P")
    /\ \/ \E sh \in ShapesUpTo(MaxDepth) : arg = Arg("Shape", sh)
       \/ \E ty \in RustTypesUpTo(MaxDepth) : arg = Arg("syn::Type", ty)
    /\ result = NoCall

\* shape_to_capnp_type(shape)
MapShape ==
    /\ arg.kind = "Shape"
    /\ result' = Returned("shape_to_capnp_type", shape_to_capnp_type(arg.val))
    /\ UNCHANGED <<doc, s, arg>>

\* rust_type_to_capnp_model_type(ty)
MapRustType ==
    /\ arg.kind = "syn::Type"
    /\ result' = Returned("rust_type_to_capnp_model_type",
                          rust_type_to_capnp_model_type(arg.val))
    /\ UNCHANGED <<doc, s, arg>>

MapNext ==
    \/ MapShape
    \/ MapRustType

MapSpec == MapInit /\ [][MapNext]_vars

---------------------------------------------------------------------------
(* C16: shape_to_capnp_type maps an integer of 1, 2, 4 or 8 bytes to the   *)
(* Int or UInt type of that many bits by its signed flag and a float of 4  *)
(* or 8 bytes to Float32 or Float64; an integer of any other width, 16     *)
(* bytes included, and a float of any other width give an error and no     *)
(* type.                                                                   *)

IsSizedNumeric(sh) ==
    sh.ty = "Primitive" /\ sh.sub \in {"Integer", "Float"} /\ sh.layout # <<>>

IsError(r) == ~r.ok /\ r.val = <<>> /\ Len(r.err) = 1

C16_NumericWidths ==
    (Called("shape_to_capnp_type") /\ IsSizedNumeric(arg.val)) =>
        LET sh == arg.val
            w == sh.layout[1]
            bits == ToString(8 * w)
        IN  /\ (sh.sub = "Integer" /\ w \in {1, 2, 4, 8}) =>
                    Ret = OkVal(Prim((IF sh.signed THEN "Int" ELSE "UInt")
                                        \o bits))
            /\ (sh.sub = "Integer" /\ w \notin {1, 2, 4, 8}) => IsError(Ret)
            /\ (sh.sub = "Float" /\ w \in {4, 8}) =>
                    Ret = OkVal(Prim("Float" \o bits))
            /\ (sh.sub = "Float" /\ w \notin {4, 8}) => IsError(Ret)

\* the mapper refused an unsigned integer of 16 bytes
C16_Witness ==
    /\ Called("shape_to_capnp_type")
    /\ arg.val = IntegerShape(16, FALSE)
    /\ Ret = Err("UInt128 not supported in Cap'n Proto")

---------------------------------------------------------------------------
(* C17: shape_to_capnp_type is recursive on sequences: an array, a slice   *)
(* or an opaque Vec with a type parameter, of inner shape d, maps to       *)
(* List(map(d)) when map(d) succeeds and to the error of map(d) when it    *)
(* fails, at every depth; a sequence of sequences of u32 maps to           *)
(* List(List(UInt32)).                                                     *)

IsSequence(sh) ==
    \/ sh.ty = "Sequence"
    \/ /\ sh.ty = "User"
       /\ sh.sub = "Opaque"
       /\ sh.type_identifier = "Vec"
       /\ sh.type_params # <<>>

InnerShape(sh) == IF sh.ty = "Sequence" THEN sh.inner[1] ELSE sh.type_params[1]

RECURSIVE SequenceDepth(_)
SequenceDepth(sh) ==
    IF IsSequence(sh) THEN 1 + SequenceDepth(InnerShape(sh)) ELSE 0

RECURSIVE ElementShape(_)
ElementShape(sh) == IF IsSequence(sh) THEN ElementShape(InnerShape(sh)) ELSE sh

RECURSIVE ListsAround(_, _)
ListsAround(t, n) == IF n = 0 THEN t ELSE List(ListsAround(t, n - 1))

C17_SequencesRecursive ==
    (Called("shape_to_capnp_type") /\ IsSequence(arg.val)) =>
        LET sh == arg.val
            inner == shape_to_capnp_type(InnerShape(sh))
            element == shape_to_capnp_type(ElementShape(sh))
        IN  /\ inner.ok => Ret = OkVal(List(inner.val[1]))
            /\ ~inner.ok => Ret = inner
            /\ element.ok =>
                    Ret = OkVal(ListsAround(element.val[1], SequenceDepth(sh)))
            /\ ~element.ok => Ret = element

\* the mapper returned List(List(UInt32)) for a slice of arrays of u32
C17_Witness ==
    /\ Called("shape_to_capnp_type")
    /\ arg.val = SequenceShape("Slice",
                    SequenceShape("Array", IntegerShape(4, FALSE)))
    /\ Ret = OkVal(List(List(Prim("UInt32"))))

---------------------------------------------------------------------------
(* C18: for an unsupported type both mappers return an error, never a      *)
(* type made up for it: the never type, pointers, 128-bit and other        *)
(* unsupported widths, a Vec without a type parameter and an unrecognized  *)
(* opaque type name (the error carrying the name), for shape_to_capnp_type *)
(* and for the derive macro's rust_type_to_capnp_model_type.               *)

UnsupportedShape(sh) ==
    \/ sh.ty = "Primitive" /\ sh.sub = "Never"
    \/ sh.ty = "Pointer"
    \/ IsSizedNumeric(sh) /\ sh.sub = "Integer" /\ sh.layout[1] \notin {1, 2, 4, 8}
    \/ IsSizedNumeric(sh) /\ sh.sub = "Float" /\ sh.layout[1] \notin {4, 8}
    \/ /\ sh.ty = "User"
       /\ sh.sub = "Opaque"
       /\ \/ sh.type_identifier = "Vec" /\ sh.type_params = <<>>
          \/ sh.type_identifier \notin {"String", "Vec"}

\* The text ends with the given suffix
EndsWith(text, suffix) ==
    /\ Len(text) >= Len(suffix)
    /\ SubSeq(text, Len(text) - Len(suffix) + 1, Len(text)) = suffix

\* The same types as the derive macro sees them: the never type, pointers
\* and references, the 128-bit integers, Vec without a type argument
UnsupportedRustType(ty) ==
    \/ ty.kind \in {"Never", "Ptr", "Reference"}
    \/ ty = Ident("u128")
    \/ ty = Ident("i128")
    \/ ty = Ident("Vec")

C18_UnsupportedIsError ==
    /\ (Called("shape_to_capnp_type") /\ UnsupportedShape(arg.val)) =>
            /\ IsError(Ret)
            /\ (arg.val.sub = "Opaque" /\ arg.val.type_identifier # "Vec") =>
                    EndsWith(Ret.err[1], arg.val.type_identifier)
    /\ (Called("rust_type_to_capnp_model_type") /\ UnsupportedRustType(arg.val)) =>
            IsError(Ret)

---------------------------------------------------------------------------
(* The string functions src/src/lib.rs uses to read attributes and to      *)
(* spell names.  A char is a string of length one.                         *)

\* str::strip_prefix: Some(rest) or None
strip_prefix(str, prefix) ==
    IF Len(str) >= Len(prefix) /\ SubSeq(str, 1, Len(prefix)) = prefix
    THEN <<SubSeq(str, Len(prefix) + 1, Len(str))>>
    ELSE <<>>

\* str::trim_matches: the string without its leading and trailing chars of
\* the given set
trim_matches(str, chars) ==
    LET keep == {i \in 1..Len(str) : SubSeq(str, i, i) \notin chars}
    IN  IF keep = {} THEN ""
        ELSE SubSeq(str, CHOOSE i \in keep : \A j \in keep : i <= j,
                         CHOOSE i \in keep : \A j \in keep : i >= j)

\* str::trim
trim(str) == trim_matches(str, {" ", "\t", "\n", "\r"})

\* The position of the char in the string, 0 if it is not there
IndexIn(c, chars) ==
    LET at == {i \in 1..Len(chars) : SubSeq(chars, i, i) = c}
    IN  IF at = {} THEN 0 ELSE CHOOSE i \in at : TRUE

\* str::parse::<u32>: an optional "+", then digits only, at most u32::MAX
\* (compared digit by digit: the number is past the integers of TLC)
parse_u32(str) ==
    LET Digit(text, i) == IndexIn(SubSeq(text, i, i), "0123456789") - 1
        RECURSIVE Significant(_)
        Significant(text) ==
            IF Len(text) > 0 /\ SubSeq(text, 1, 1) = "0"
            THEN Significant(SubSeq(text, 2, Len(text)))
            ELSE text
        RECURSIVE Value(_, _, _)
        Value(text, i, acc) ==
            IF i > Len(text) THEN acc
            ELSE Value(text, i + 1, 10 * acc + Digit(text, i))
        max == "4294967295"
        digits == IF Len(str) > 0 /\ SubSeq(str, 1, 1) = "+"
                  THEN SubSeq(str, 2, Len(str)) ELSE str
        sig == Significant(digits)
    IN  IF /\ Len(digits) > 0
           /\ \A i \in 1..Len(digits) : Digit(digits, i) >= 0
           /\ \/ Len(sig) < Len(max)
              \/ /\ Len(sig) = Len(max)
                 /\ \/ sig = max
                    \/ \E i \in 1..Len(sig) :
                            /\ SubSeq(sig, 1, i - 1) = SubSeq(max, 1, i - 1)
                            /\ Digit(sig, i) < Digit(max, i)
        THEN <<Value(sig, 1, 0)>>
        ELSE <<>>

\* heck::ToLowerCamelCase: the name is cut into words at the chars that are
\* no letter and no digit, between a lower case and an upper case letter,
\* and before the last upper case letter of a run that a lower case letter
\* follows; the first word is written in lower case, the others with an
\* upper case first letter.  In Words, i is the char looked at, init the
\* start of the word being read, mode the case of the chars read in it.
to_lower_camel_case(str) ==
    LET lower == "abcdefghijklmnopqrstuvwxyz"
        upper == "ABCDEFGHIJKLMNOPQRSTUVWXYZ"
        is_lowercase(c) == IndexIn(c, lower) > 0
        is_uppercase(c) == IndexIn(c, upper) > 0
        is_alphanumeric(c) ==
            is_lowercase(c) \/ is_uppercase(c) \/ IndexIn(c, "0123456789") > 0
        RECURSIVE to_lowercase(_)
        to_lowercase(word) ==
            IF word = "" THEN ""
            ELSE LET c == SubSeq(word, 1, 1)
                 IN  (IF is_uppercase(c)
                      THEN SubSeq(lower, IndexIn(c, upper), IndexIn(c, upper))
                      ELSE c)
                        \o to_lowercase(SubSeq(word, 2, Len(word)))
        capitalize(word) ==
            IF word = "" THEN ""
            ELSE LET c == SubSeq(word, 1, 1)
                 IN  (IF is_lowercase(c)
                      THEN SubSeq(upper, IndexIn(c, lower), IndexIn(c, lower))
                      ELSE c)
                        \o to_lowercase(SubSeq(word, 2, Len(word)))
        RECURSIVE Words(_, _, _)
        Words(i, init, mode) ==
            IF i > Len(str) THEN <<>>
            ELSE LET c == SubSeq(str, i, i)
                 IN  IF ~is_alphanumeric(c)
                     THEN Words(i + 1, i + 1, "Boundary")
                     ELSE IF i = Len(str)
                             \/ ~is_alphanumeric(SubSeq(str, i + 1, i + 1))
                     THEN <<SubSeq(str, init, i)>>
                            \o Words(i + 1, i + 1, "Boundary")
                     ELSE LET next == SubSeq(str, i + 1, i + 1)
                              next_mode == IF is_lowercase(c) THEN "Lowercase"
                                           ELSE IF is_uppercase(c) THEN "Uppercase"
                                           ELSE mode
                          IN  IF next_mode = "Lowercase" /\ is_uppercase(next)
                              THEN <<SubSeq(str, init, i)>>
                                    \o Words(i + 1, i + 1, "Boundary")
                              ELSE IF /\ mode = "Uppercase"
                                      /\ is_uppercase(c)
                                      /\ is_lowercase(next)
                              THEN <<SubSeq(str, init, i - 1)>>
                                    \o Words(i + 1, i, "Boundary")
                              ELSE Words(i + 1, init, next_mode)
        RECURSIVE Join(_, _)
        Join(words, i) ==
            IF i > Len(words) THEN ""
            ELSE (IF i = 1 THEN to_lowercase(words[i]) ELSE capitalize(words[i]))
                    \o Join(words, i + 1)
    IN  Join(Words(1, 1, "Boundary"), 1)

---------------------------------------------------------------------------
(* The schema model src/src/lib.rs builds: Struct, Union, UnionVariant of  *)
(* the capnp_model crate.  A Struct carries extra_fields, a Group variant  *)
(* carries no id of its own.  Field and Union have the layout of           *)
(* CapnpField and CapnpUnion above.                                        *)

Struct_new(name) ==
    [name |-> name, fields |-> <<>>, union |-> <<>>, extra_fields |-> <<>>]

Struct_add_field(st, field) == [st EXCEPT !.fields = Append(@, field)]

Struct_set_union(st, un) == [st EXCEPT !.union = <<un>>]

Struct_add_extra_field(st, extra) ==
    [st EXCEPT !.extra_fields = Append(@, extra)]

UnionVariant_new(name, id, capnp_type) ==
    [name |-> name,
     variant_inner |-> [kind |-> "Type", id |-> id, capnp_type |-> capnp_type]]

UnionVariant_new_group(name, fields) ==
    [name |-> name, variant_inner |-> [kind |-> "Group", fields |-> fields]]

---------------------------------------------------------------------------
(* Reading the attributes of a shape, a field and a variant                *)

\* A field of a struct or of a variant: Field.name, .shape, .attributes
\* (the text of each FieldAttribute::Arbitrary)
ShapeField(name, shape, attributes) ==
    [name |-> name, shape |-> shape, attributes |-> attributes]

\* Variant.name, .attributes, .data.kind and .data.fields
ShapeVariant(name, attributes, kind, fields) ==
    [name |-> name, attributes |-> attributes, kind |-> kind, fields |-> fields]

\* ShapeAttribute::Arbitrary(text), or another ShapeAttribute
ShapeAttribute(arbitrary, text) == [arbitrary |-> arbitrary, text |-> text]

\* The id of a 'capnp : id = N' attribute, if it is one
IdOfAttribute(text) ==
    LET rest == strip_prefix(text, "capnp : ")
        id_str == IF rest = <<>> THEN <<>> ELSE strip_prefix(rest[1], "id = ")
    IN  IF id_str = <<>> THEN <<>> ELSE parse_u32(trim(id_str[1]))

\* The first attribute that gives an id decides
extract_capnp_id_from_variant_attrs(variant) ==
    LET RECURSIVE From(_)
        From(i) ==
            LET Found(id) == IF id # <<>> THEN id ELSE From(i + 1)
            IN  IF i > Len(variant.attributes) THEN <<>>
                ELSE Found(IdOfAttribute(variant.attributes[i]))
    IN  From(1)

variant_has_data(variant) ==
    IF variant.kind = "Unit" THEN FALSE ELSE variant.fields # <<>>

\* The last attribute that gives a name, or an id, decides
capnp_overrides_from_attrs(field) ==
    LET RECURSIVE From(_, _, _)
        From(i, name, id) ==
            LET WithId(n) == From(i + 1, name, IF n # <<>> THEN n ELSE id)
                WithName(name_value) ==
                    IF name_value # "" THEN From(i + 1, <<name_value>>, id)
                    ELSE From(i + 1, name, id)
                Named(name_str) ==
                    IF name_str # <<>> THEN WithName(trim(name_str[1]))
                    ELSE From(i + 1, name, id)
            IN  IF i > Len(field.attributes) THEN [name |-> name, id |-> id]
                ELSE IF strip_prefix(field.attributes[i], "capnp : ") # <<>>
                THEN WithId(IdOfAttribute(field.attributes[i]))
                ELSE Named(strip_prefix(field.attributes[i], "name = "))
    IN  From(1, <<>>, <<>>)

extract_capnp_extra_fields_from_shape_attrs(shape) ==
    LET Pushed(extra_value) ==
            IF extra_value # "" THEN <<extra_value>> ELSE <<>>
        Extra(rest) ==
            IF rest = <<>> THEN <<>>
            ELSE Pushed(trim_matches(trim(rest[1]), {"\""}))
        RECURSIVE From(_)
        From(i) ==
            IF i > Len(shape.attributes) THEN <<>>
            ELSE (IF shape.attributes[i].arbitrary
                  THEN Extra(strip_prefix(shape.attributes[i].text,
                                          "capnp : extra = "))
                  ELSE <<>>)
                    \o From(i + 1)
    IN  From(1)

\* Struct::new(name) and, for each extra field, add_extra_field(extra_field)
StructWithExtras(shape) ==
    LET extra_fields == extract_capnp_extra_fields_from_shape_attrs(shape)
        RECURSIVE Add(_, _)
        Add(st, i) ==
            IF i > Len(extra_fields) THEN st
            ELSE Add(Struct_add_extra_field(st, extra_fields[i]), i + 1)
    IN  Add(Struct_new(shape.type_identifier), 1)

---------------------------------------------------------------------------
(* build_capnp_struct_from_shape and build_capnp_union_from_shape          *)

\* Mutant: a field without an id gets its position as id
RECURSIVE BuildFields_PositionAsId(_, _, _)
BuildFields_PositionAsId(st, fields, i) ==
    LET Added(capnp_name, id, capnp_ty) ==
            IF ~capnp_ty.ok THEN Err(capnp_ty.err[1])
            ELSE BuildFields_PositionAsId(
                    Struct_add_field(st, CapnpField_new(capnp_name, id,
                                                        capnp_ty.val[1])),
                    fields, i + 1)
        WithOverrides(fld, overrides) ==
            Added(IF overrides.name # <<>> THEN overrides.name[1]
                  ELSE to_lower_camel_case(fld.name),
                  IF overrides.id = <<>> THEN i - 1 ELSE overrides.id[1],
                  shape_to_capnp_type(fld.shape))
    IN  IF i > Len(fields) THEN OkVal(st)
        ELSE WithOverrides(fields[i], capnp_overrides_from_attrs(fields[i]))

\* for fld in st.fields.iter() { .. }
RECURSIVE BuildFields(_, _, _)
BuildFields(st, fields, i) ==
    LET Added(capnp_name, id, capnp_ty) ==
            IF ~capnp_ty.ok THEN Err(capnp_ty.err[1])
            ELSE BuildFields(
                    Struct_add_field(st, CapnpField_new(capnp_name, id,
                                                        capnp_ty.val[1])),
                    fields, i + 1)
        WithOverrides(fld, overrides) ==
            IF overrides.id = <<>>
            THEN Err("Field '" \o fld.name
                        \o "' missing required capnp:id attribute. Use #[facet(capnp:id=N)]")
            ELSE Added(IF overrides.name # <<>> THEN overrides.name[1]
                       ELSE to_lower_camel_case(fld.name),
                       overrides.id[1],
                       shape_to_capnp_type(fld.shape))
    IN  IF i > Len(fields) THEN OkVal(st)
        ELSE WithOverrides(fields[i], capnp_overrides_from_attrs(fields[i]))

build_capnp_struct_from_shape(shape) ==
    IF ~(shape.ty = "User" /\ shape.sub = "Struct")
    THEN Err(shape.type_identifier \o " is not a struct")
    ELSE IF shape.kind = "Unit" THEN OkVal(StructWithExtras(shape))
    ELSE BuildFields(StructWithExtras(shape), shape.fields, 1)

\* The fields of a tuple variant; a field without a name override is called
\* field<id>
RECURSIVE TupleGroupFields(_, _, _, _)
TupleGroupFields(variant_name, fields, i, group_fields) ==
    LET Pushed(field_name, field_id, capnp_ty) ==
            IF ~capnp_ty.ok THEN Err(capnp_ty.err[1])
            ELSE TupleGroupFields(variant_name, fields, i + 1,
                    Append(group_fields,
                           CapnpField_new(field_name, field_id,
                                          capnp_ty.val[1])))
        WithOverrides(field, overrides) ==
            IF overrides.id = <<>>
            THEN Err("Field in variant '" \o variant_name
                        \o "' missing required capnp:id attribute. Use #[facet(capnp:id=N)]")
            ELSE Pushed(IF overrides.name # <<>> THEN overrides.name[1]
                        ELSE "field" \o ToString(overrides.id[1]),
                        overrides.id[1],
                        shape_to_capnp_type(field.shape))
    IN  IF i > Len(fields) THEN OkVal(group_fields)
        ELSE WithOverrides(fields[i], capnp_overrides_from_attrs(fields[i]))

\* The fields of a struct variant
RECURSIVE StructGroupFields(_, _, _, _)
StructGroupFields(variant_name, fields, i, group_fields) ==
    LET Pushed(field_name, field_id, capnp_ty) ==
            IF ~capnp_ty.ok THEN Err(capnp_ty.err[1])
            ELSE StructGroupFields(variant_name, fields, i + 1,
                    Append(group_fields,
                           CapnpField_new(field_name, field_id,
                                          capnp_ty.val[1])))
        WithOverrides(field, overrides) ==
            IF overrides.id = <<>>
            THEN Err("Field '" \o field.name \o "' in variant '"
                        \o variant_name
                        \o "' missing required capnp:id attribute. Use #[facet(capnp:id=N)]")
            ELSE Pushed(IF overrides.name # <<>> THEN overrides.name[1]
                        ELSE to_lower_camel_case(field.name),
                        overrides.id[1],
                        shape_to_capnp_type(field.shape))
    IN  IF i > Len(fields) THEN OkVal(group_fields)
        ELSE WithOverrides(fields[i], capnp_overrides_from_attrs(fields[i]))

\* for variant in enum_def.variants.iter() { .. }; Built is the outcome of
\* match variant.data.kind { .. }
RECURSIVE BuildVariants(_, _, _)
BuildVariants(un, variants, i) ==
    LET Added(built) ==
            IF ~built.ok THEN built
            ELSE BuildVariants(CapnpUnion_add_variant(un, built.val[1]),
                               variants, i + 1)
        Group(variant_name, group_fields) ==
            IF ~group_fields.ok THEN group_fields
            ELSE OkVal(UnionVariant_new_group(variant_name,
                                              group_fields.val[1]))
        Built(variant, variant_name, variant_id_opt) ==
            CASE variant.kind = "Unit" ->
                    OkVal(UnionVariant_new(variant_name, variant_id_opt[1],
                                           Prim("Void")))
              [] variant.kind \in {"Tuple", "TupleStruct"} ->
                    IF variant.fields = <<>>
                    THEN OkVal(UnionVariant_new(variant_name,
                                                variant_id_opt[1],
                                                Prim("Void")))
                    ELSE Group(variant_name,
                               TupleGroupFields(variant_name, variant.fields,
                                                1, <<>>))
              [] variant.kind = "Struct" ->
                    Group(variant_name,
                          StructGroupFields(variant_name, variant.fields,
                                            1, <<>>))
        Checked(variant, has_data, variant_id_opt) ==
            IF ~has_data /\ variant_id_opt = <<>>
            THEN Err("Unit variant '" \o variant.name
                        \o "' missing required capnp:id attribute. Use #[facet(capnp:id=N)]")
            ELSE IF has_data /\ variant_id_opt # <<>>
            THEN Err("Data-bearing variant '" \o variant.name
                        \o "' should not have capnp:id attribute. Only put IDs on the fields.")
            ELSE Added(Built(variant, to_lower_camel_case(variant.name),
                             variant_id_opt))
    IN  IF i > Len(variants) THEN OkVal(un)
        ELSE Checked(variants[i], variant_has_data(variants[i]),
                     extract_capnp_id_from_variant_attrs(variants[i]))

build_capnp_union_from_shape(shape) ==
    LET WithUnion(un) ==
            IF ~un.ok THEN un
            ELSE OkVal(Struct_set_union(StructWithExtras(shape), un.val[1]))
    IN  IF ~(shape.ty = "User" /\ shape.sub = "Enum")
        THEN Err(shape.type_identifier \o " is not an enum")
        ELSE WithUnion(BuildVariants(CapnpUnion_new, shape.variants, 1))

\* Schema::new() and add_item(SchemaItem::Struct(..)): the items of the schema
build_capnp_document_from_shape(shape) ==
    LET Item(built) == IF ~built.ok THEN built ELSE OkVal(<<built.val[1]>>)
    IN  CASE shape.ty = "User" /\ shape.sub = "Struct" ->
                Item(build_capnp_struct_from_shape(shape))
          [] shape.ty = "User" /\ shape.sub = "Enum" ->
                Item(build_capnp_union_from_shape(shape))
          [] OTHER ->
                Err(shape.type_identifier
                        \o " is not a supported type (must be struct or enum)")

---------------------------------------------------------------------------
(* Validating and rendering a Schema of the capnp_model crate.  A Group    *)
(* variant has no id of its own: it records only the ids of its fields and *)
(* is written without the @<id> token.  The extra fields of a struct are   *)
(* written after its fields and its union, each on a line of its own.      *)

\* Mutant: a Group variant takes the slot of id 0 for itself
Struct_validate_GroupSlot(st) ==
    LET Collect(map, variant) ==
            IF variant.variant_inner.kind = "Type"
            THEN EntryPush(map, variant.variant_inner.id,
                           VariantLocation(variant))
            ELSE CollectGroupFields(
                    EntryPush(map, 0, VariantLocation(variant)), variant,
                    variant.variant_inner.fields, 1)
        RECURSIVE From(_, _, _)
        From(map, variants, i) ==
            IF i > Len(variants) THEN map
            ELSE From(Collect(map, variants[i]), variants, i + 1)
        m1 == CollectFields(EmptyMap, st.fields, 1)
    IN  FirstConflict(IF st.union # <<>>
                      THEN From(m1, st.union[1].variants, 1)
                      ELSE m1)

Struct_validate(st) ==
    LET Collect(map, variant) ==
            IF variant.variant_inner.kind = "Type"
            THEN EntryPush(map, variant.variant_inner.id,
                           VariantLocation(variant))
            ELSE CollectGroupFields(map, variant,
                                    variant.variant_inner.fields, 1)
        RECURSIVE From(_, _, _)
        From(map, variants, i) ==
            IF i > Len(variants) THEN map
            ELSE From(Collect(map, variants[i]), variants, i + 1)
        m1 == CollectFields(EmptyMap, st.fields, 1)
    IN  FirstConflict(IF st.union # <<>>
                      THEN From(m1, st.union[1].variants, 1)
                      ELSE m1)

UnionVariant_render(variant) ==
    LET inner == variant.variant_inner
    IN  IF inner.kind = "Type"
        THEN variant.name \o " @" \o ToString(inner.id) \o " :"
                \o CapnpType_render(inner.capnp_type) \o ";"
        ELSE IF inner.fields = <<>>
             THEN variant.name \o " :group {};"
             ELSE variant.name \o " :group {\n"
                    \o GroupFieldLines(inner.fields, 1) \o "    };"

\* Mutant: the extra fields are written from the last one to the first
RECURSIVE ExtraLines_LastFirst(_, _)
ExtraLines_LastFirst(extra_fields, i) ==
    IF i > Len(extra_fields) THEN ""
    ELSE ExtraLines_LastFirst(extra_fields, i + 1)
            \o "  " \o extra_fields[i] \o ";\n"

RECURSIVE ExtraLines(_, _)
ExtraLines(extra_fields, i) ==
    IF i > Len(extra_fields) THEN ""
    ELSE "  " \o extra_fields[i] \o ";\n" \o ExtraLines(extra_fields, i + 1)

Struct_text(st) ==
    LET RECURSIVE UnionVariantLines(_, _)
        UnionVariantLines(variants, i) ==
            IF i > Len(variants) THEN ""
            ELSE "    " \o UnionVariant_render(variants[i]) \o "\n"
                    \o UnionVariantLines(variants, i + 1)
    IN  "struct " \o st.name \o " {\n"
            \o FieldLines(st.fields, 1)
            \o (IF st.union # <<>>
                THEN "  union {\n" \o UnionVariantLines(st.union[1].variants, 1)
                        \o "  }\n"
                ELSE "")
            \o ExtraLines(st.extra_fields, 1)
            \o "}\n"

\* Each struct is validated and written, a blank line between two structs
Schema_render(items) ==
    LET Struct_render(st) ==
            {IF v.ok THEN OkText(Struct_text(st)) ELSE v :
                v \in Struct_validate(st)}
        RECURSIVE From(_, _)
        From(i, output) ==
            IF i > Len(items) THEN {OkText(output)}
            ELSE LET out1 == IF i - 1 > 0 THEN output \o "\n" ELSE output
                 IN  UNION {IF r.ok THEN From(i + 1, out1 \o r.val[1]) ELSE {r}
                                : r \in Struct_render(items[i])}
    IN  From(1, "")

\* impl Display for ValidationError
ValidationError_to_string(e) ==
    LET RECURSIVE Join(_)
        Join(i) ==
            IF i > Len(e.locations) THEN ""
            ELSE (IF i > 1 THEN ", " ELSE "") \o e.locations[i] \o Join(i + 1)
    IN  "Duplicate ID " \o ToString(e.id) \o " found in: " \o Join(1)

\* capnp_schema_for::<T>(), T::SHAPE being shape
capnp_schema_for(shape) ==
    LET Rendered(document) ==
            IF ~document.ok THEN {document}
            ELSE {IF r.ok THEN r ELSE Err(ValidationError_to_string(r.err[1]))
                    : r \in Schema_render(document.val[1])}
    IN  Rendered(build_capnp_document_from_shape(shape))

\* Mutant: the header line is not followed by a blank line
build_capnp_file_NoBlankLine(id, shapes) ==
    LET Digit(d) == SubSeq("0123456789abcdef", d + 1, d + 1)
        RECURSIVE LowerHex(_)
        LowerHex(n) ==
            IF n < 16 THEN Digit(n) ELSE LowerHex(n \div 16) \o Digit(n % 16)
        Rendered(output, document) ==
            {IF r.ok THEN OkText(output \o r.val[1])
                     ELSE Err(ValidationError_to_string(r.err[1]))
                : r \in Schema_render(document)}
        RECURSIVE From(_, _)
        From(i, document) ==
            LET Added(built) ==
                    IF ~built.ok THEN {built}
                    ELSE From(i + 1, Append(document, built.val[1]))
            IN  IF i > Len(shapes)
                THEN Rendered("@0x" \o LowerHex(id) \o ";\n", document)
                ELSE CASE shapes[i].ty = "User" /\ shapes[i].sub = "Struct" ->
                            Added(build_capnp_struct_from_shape(shapes[i]))
                       [] shapes[i].ty = "User" /\ shapes[i].sub = "Enum" ->
                            Added(build_capnp_union_from_shape(shapes[i]))
                       [] OTHER ->
                            {Err(shapes[i].type_identifier
                                \o " is not a supported type (must be struct or enum)")}
    IN  From(1, <<>>)

\* build_capnp_file(id, shapes): format!("@0x{:x};\n\n", id), then each shape
\* is built and added to the schema, `?` returning the first error, then the
\* schema is rendered and its text pushed after the header
build_capnp_file(id, shapes) ==
    LET Digit(d) == SubSeq("0123456789abcdef", d + 1, d + 1)
        RECURSIVE LowerHex(_)
        LowerHex(n) ==
            IF n < 16 THEN Digit(n) ELSE LowerHex(n \div 16) \o Digit(n % 16)
        Rendered(output, document) ==
            {IF r.ok THEN OkText(output \o r.val[1])
                     ELSE Err(ValidationError_to_string(r.err[1]))
                : r \in Schema_render(document)}
        RECURSIVE From(_, _)
        From(i, document) ==
            LET Added(built) ==
                    IF ~built.ok THEN {built}
                    ELSE From(i + 1, Append(document, built.val[1]))
            IN  IF i > Len(shapes)
                THEN Rendered("@0x" \o LowerHex(id) \o ";\n\n", document)
                ELSE CASE shapes[i].ty = "User" /\ shapes[i].sub = "Struct" ->
                            Added(build_capnp_struct_from_shape(shapes[i]))
                       [] shapes[i].ty = "User" /\ shapes[i].sub = "Enum" ->
                            Added(build_capnp_union_from_shape(shapes[i]))
                       [] OTHER ->
                            {Err(shapes[i].type_identifier
                                \o " is not a supported type (must be struct or enum)")}
    IN  From(1, <<>>)

---------------------------------------------------------------------------
(* The derive macro.  A DeriveInput has an ident, data ("Struct", "Enum"   *)
(* or "Union"), fields, variants and attrs.  Fields have a kind ("Named",  *)
(* "Unnamed" or "Unit") and a list of fields, each with ident, attrs and   *)
(* ty.  An attribute has a path and the entries of its list (metas), each  *)
(* a key with a literal ("Int", "Str", or "None" when no value is given).  *)

\* attr.parse_nested_meta(|meta| ..): the values of the entries `key = <a
\* literal of the kind lit>`, up to the first entry on which the closure
\* returns an error.  Another key is skipped: a value given to it is parsed
\* as a LitInt for the key id and as a LitStr otherwise.
NestedMetaValues(attr, key, lit) ==
    LET RECURSIVE From(_)
        From(i) ==
            IF i > Len(attr.metas) THEN <<>>
            ELSE IF attr.metas[i].key = key
            THEN IF attr.metas[i].lit = "None" THEN <<>>
                 ELSE (IF attr.metas[i].lit = lit
                       THEN <<attr.metas[i].value>> ELSE <<>>)
                        \o From(i + 1)
            ELSE IF attr.metas[i].lit = "None" THEN From(i + 1)
            ELSE IF attr.metas[i].lit
                        = (IF attr.metas[i].key = "id" THEN "Int" ELSE "Str")
            THEN From(i + 1)
            ELSE <<>>
    IN  IF attr.path = "capnp" THEN From(1) ELSE <<>>

\* The first capnp attribute that gives an id decides
extract_capnp_id(attrs) ==
    LET RECURSIVE From(_)
        From(i) ==
            LET Found(ids) ==
                    IF ids # <<>> THEN OkVal(ids[Len(ids)]) ELSE From(i + 1)
            IN  IF i > Len(attrs)
                THEN Err("Missing required capnp:id attribute")
                ELSE Found(NestedMetaValues(attrs[i], "id", "Int"))
    IN  From(1)

\* The first capnp attribute that gives a name decides; <<>> is None
extract_custom_name(attrs) ==
    LET RECURSIVE From(_)
        From(i) ==
            LET Found(names) ==
                    IF names # <<>> THEN <<names[Len(names)]>> ELSE From(i + 1)
            IN  IF i > Len(attrs) THEN <<>>
                ELSE Found(NestedMetaValues(attrs[i], "name", "Str"))
    IN  From(1)

extract_extra_fields(attrs) ==
    LET RECURSIVE From(_)
        From(i) ==
            IF i > Len(attrs) THEN <<>>
            ELSE NestedMetaValues(attrs[i], "extra", "Str") \o From(i + 1)
    IN  From(1)

\* generate_schema_item_with_model(input): the item that record_schema_item
\* pushes, built with the constructors of capnp_model
generate_schema_item_with_model(input) ==
    LET RECURSIVE Named(_, _, _)
        Named(fields, i, collected) ==
            LET WithType(id, custom_name, field_type) ==
                    IF ~field_type.ok THEN field_type
                    ELSE Named(fields, i + 1,
                            Append(collected, CapnpField_new(
                                IF custom_name # <<>> THEN custom_name[1]
                                ELSE to_lower_camel_case(fields[i].ident),
                                id, field_type.val[1])))
                WithId(id) ==
                    IF ~id.ok THEN id
                    ELSE WithType(id.val[1],
                                  extract_custom_name(fields[i].attrs),
                                  rust_type_to_capnp_model_type(fields[i].ty))
            IN  IF i > Len(fields) THEN OkVal(collected)
                ELSE WithId(extract_capnp_id(fields[i].attrs))
        RECURSIVE Unnamed(_, _, _)
        Unnamed(fields, i, collected) ==
            LET WithType(id, field_type) ==
                    IF ~field_type.ok THEN field_type
                    ELSE Unnamed(fields, i + 1,
                            Append(collected, CapnpField_new(
                                "field" \o ToString(i - 1), id,
                                field_type.val[1])))
                WithId(id) ==
                    IF ~id.ok THEN id
                    ELSE WithType(id.val[1],
                                  rust_type_to_capnp_model_type(fields[i].ty))
            IN  IF i > Len(fields) THEN OkVal(collected)
                ELSE WithId(extract_capnp_id(fields[i].attrs))
        FieldsOf(fields) ==
            CASE fields.kind = "Named" -> Named(fields.list, 1, <<>>)
              [] fields.kind = "Unnamed" -> Unnamed(fields.list, 1, <<>>)
              [] OTHER -> OkVal(<<>>)
        RECURSIVE AddFields(_, _, _)
        AddFields(struct_def, fields, i) ==
            IF i > Len(fields) THEN struct_def
            ELSE AddFields(Struct_add_field(struct_def, fields[i]), fields,
                           i + 1)
        RECURSIVE AddExtras(_, _, _)
        AddExtras(struct_def, extra_fields, i) ==
            IF i > Len(extra_fields) THEN struct_def
            ELSE AddExtras(Struct_add_extra_field(struct_def, extra_fields[i]),
                           extra_fields, i + 1)
        StructItem(fields) ==
            IF ~fields.ok THEN fields
            ELSE OkVal(AddExtras(
                    AddFields(Struct_new(input.ident), fields.val[1], 1),
                    extract_extra_fields(input.attrs), 1))
        RECURSIVE Variants(_, _)
        Variants(i, union_def) ==
            LET Unit(variant_name, variant_id) ==
                    IF ~variant_id.ok THEN variant_id
                    ELSE Variants(i + 1, CapnpUnion_add_variant(union_def,
                            UnionVariant_new(variant_name, variant_id.val[1],
                                             Prim("Void"))))
                Group(variant_name, group_fields) ==
                    IF ~group_fields.ok THEN group_fields
                    ELSE Variants(i + 1, CapnpUnion_add_variant(union_def,
                            UnionVariant_new_group(variant_name,
                                                   group_fields.val[1])))
            IN  IF i > Len(input.variants) THEN OkVal(union_def)
                ELSE IF input.variants[i].fields.kind = "Unit"
                THEN Unit(to_lower_camel_case(input.variants[i].ident),
                          extract_capnp_id(input.variants[i].attrs))
                ELSE Group(to_lower_camel_case(input.variants[i].ident),
                           FieldsOf(input.variants[i].fields))
        EnumItem(union_def) ==
            IF ~union_def.ok THEN union_def
            ELSE OkVal(AddExtras(
                    Struct_set_union(Struct_new(input.ident), union_def.val[1]),
                    extract_extra_fields(input.attrs), 1))
    IN  CASE input.data = "Struct" -> StructItem(FieldsOf(input.fields))
          [] input.data = "Enum" -> EnumItem(Variants(1, CapnpUnion_new))
          [] OTHER -> Err("Union types are not supported")

\* Mutant: the generated code keeps the name of a variant as it is written
generate_capnp_type_VariantIdent(input) ==
    LET RECURSIVE Tokens(_)
        Tokens(ty) ==
            LET Boxed(inner) ==
                    IF inner.ok THEN OkVal(List(inner.val[1])) ELSE inner
            IN  IF ty.kind # "Path" THEN Err("Unsupported type")
                ELSE IF \E id \in DOMAIN IdentTypes : path_is_ident(ty, id)
                THEN OkVal(Prim(IdentTypes[ty.segments[1].ident]))
                ELSE IF VecWithTypeArgument(ty)
                THEN Boxed(Tokens(ty.segments[1].args[1].ty[1]))
                ELSE OkVal(UserDefined(JoinIdents(ty.segments, 1)))
        RECURSIVE Named(_, _, _)
        Named(fields, i, field_tokens) ==
            LET WithType(id, custom_name, field_type) ==
                    IF ~field_type.ok THEN field_type
                    ELSE Named(fields, i + 1, Append(field_tokens,
                            [name |-> IF custom_name # <<>> THEN custom_name[1]
                                      ELSE to_lower_camel_case(fields[i].ident),
                             id |-> id,
                             field_type |-> field_type.val[1]]))
                WithId(id) ==
                    IF ~id.ok THEN id
                    ELSE WithType(id.val[1],
                                  extract_custom_name(fields[i].attrs),
                                  Tokens(fields[i].ty))
            IN  IF i > Len(fields) THEN OkVal(field_tokens)
                ELSE WithId(extract_capnp_id(fields[i].attrs))
        RECURSIVE Unnamed(_, _, _)
        Unnamed(fields, i, field_tokens) ==
            LET WithType(id, field_type) ==
                    IF ~field_type.ok THEN field_type
                    ELSE Unnamed(fields, i + 1, Append(field_tokens,
                            [name |-> "field" \o ToString(i - 1),
                             id |-> id,
                             field_type |-> field_type.val[1]]))
                WithId(id) ==
                    IF ~id.ok THEN id
                    ELSE WithType(id.val[1], Tokens(fields[i].ty))
            IN  IF i > Len(fields) THEN OkVal(field_tokens)
                ELSE WithId(extract_capnp_id(fields[i].attrs))
        FieldsOf(fields) ==
            CASE fields.kind = "Named" -> Named(fields.list, 1, <<>>)
              [] fields.kind = "Unnamed" -> Unnamed(fields.list, 1, <<>>)
              [] OTHER -> OkVal(<<>>)
        StructItem(fields) ==
            IF ~fields.ok THEN fields
            ELSE OkVal([name |-> input.ident,
                        fields |-> fields.val[1],
                        union |-> <<>>,
                        extra_fields |-> extract_extra_fields(input.attrs)])
        RECURSIVE Variants(_, _)
        Variants(i, variant_tokens) ==
            LET Unit(variant_id) ==
                    IF ~variant_id.ok THEN variant_id
                    ELSE Variants(i + 1, Append(variant_tokens,
                            [name |-> input.variants[i].ident,
                             variant_inner |->
                                [kind |-> "Type", id |-> variant_id.val[1],
                                 capnp_type |-> Prim("Void")]]))
                Group(group_fields) ==
                    IF ~group_fields.ok THEN group_fields
                    ELSE Variants(i + 1, Append(variant_tokens,
                            [name |-> input.variants[i].ident,
                             variant_inner |->
                                [kind |-> "Group",
                                 fields |-> group_fields.val[1]]]))
            IN  IF i > Len(input.variants) THEN OkVal(variant_tokens)
                ELSE IF input.variants[i].fields.kind = "Unit"
                THEN Unit(extract_capnp_id(input.variants[i].attrs))
                ELSE Group(FieldsOf(input.variants[i].fields))
        EnumItem(variants) ==
            IF ~variants.ok THEN variants
            ELSE OkVal([name |-> input.ident,
                        fields |-> <<>>,
                        union |-> <<[variants |-> variants.val[1]]>>,
                        extra_fields |-> extract_extra_fields(input.attrs)])
    IN  CASE input.data = "Struct" -> StructItem(FieldsOf(input.fields))
          [] input.data = "Enum" -> EnumItem(Variants(1, <<>>))
          [] OTHER -> Err("Union types are not supported")

\* generate_capnp_type(input): the SchemaItem that the generated
\* get_capnp_schema() returns, written as a struct literal by
\* generate_struct_schema and generate_enum_schema (the types by
\* generate_capnp_type_tokens)
generate_capnp_type(input) ==
    LET RECURSIVE Tokens(_)
        Tokens(ty) ==
            LET Boxed(inner) ==
                    IF inner.ok THEN OkVal(List(inner.val[1])) ELSE inner
            IN  IF ty.kind # "Path" THEN Err("Unsupported type")
                ELSE IF \E id \in DOMAIN IdentTypes : path_is_ident(ty, id)
                THEN OkVal(Prim(IdentTypes[ty.segments[1].ident]))
                ELSE IF VecWithTypeArgument(ty)
                THEN Boxed(Tokens(ty.segments[1].args[1].ty[1]))
                ELSE OkVal(UserDefined(JoinIdents(ty.segments, 1)))
        RECURSIVE Named(_, _, _)
        Named(fields, i, field_tokens) ==
            LET WithType(id, custom_name, field_type) ==
                    IF ~field_type.ok THEN field_type
                    ELSE Named(fields, i + 1, Append(field_tokens,
                            [name |-> IF custom_name # <<>> THEN custom_name[1]
                                      ELSE to_lower_camel_case(fields[i].ident),
                             id |-> id,
                             field_type |-> field_type.val[1]]))
                WithId(id) ==
                    IF ~id.ok THEN id
                    ELSE WithType(id.val[1],
                                  extract_custom_name(fields[i].attrs),
                                  Tokens(fields[i].ty))
            IN  IF i > Len(fields) THEN OkVal(field_tokens)
                ELSE WithId(extract_capnp_id(fields[i].attrs))
        RECURSIVE Unnamed(_, _, _)
        Unnamed(fields, i, field_tokens) ==
            LET WithType(id, field_type) ==
                    IF ~field_type.ok THEN field_type
                    ELSE Unnamed(fields, i + 1, Append(field_tokens,
                            [name |-> "field" \o ToString(i - 1),
                             id |-> id,
                             field_type |-> field_type.val[1]]))
                WithId(id) ==
                    IF ~id.ok THEN id
                    ELSE WithType(id.val[1], Tokens(fields[i].ty))
            IN  IF i > Len(fields) THEN OkVal(field_tokens)
                ELSE WithId(extract_capnp_id(fields[i].attrs))
        FieldsOf(fields) ==
            CASE fields.kind = "Named" -> Named(fields.list, 1, <<>>)
              [] fields.kind = "Unnamed" -> Unnamed(fields.list, 1, <<>>)
              [] OTHER -> OkVal(<<>>)
        StructItem(fields) ==
            IF ~fields.ok THEN fields
            ELSE OkVal([name |-> input.ident,
                        fields |-> fields.val[1],
                        union |-> <<>>,
                        extra_fields |-> extract_extra_fields(input.attrs)])
        RECURSIVE Variants(_, _)
        Variants(i, variant_tokens) ==
            LET Unit(variant_id) ==
                    IF ~variant_id.ok THEN variant_id
                    ELSE Variants(i + 1, Append(variant_tokens,
                            [name |->
                                to_lower_camel_case(input.variants[i].ident),
                             variant_inner |->
                                [kind |-> "Type", id |-> variant_id.val[1],
                                 capnp_type |-> Prim("Void")]]))
                Group(group_fields) ==
                    IF ~group_fields.ok THEN group_fields
                    ELSE Variants(i + 1, Append(variant_tokens,
                            [name |->
                                to_lower_camel_case(input.variants[i].ident),
                             variant_inner |->
                                [kind |-> "Group",
                                 fields |-> group_fields.val[1]]]))
            IN  IF i > Len(input.variants) THEN OkVal(variant_tokens)
                ELSE IF input.variants[i].fields.kind = "Unit"
                THEN Unit(extract_capnp_id(input.variants[i].attrs))
                ELSE Group(FieldsOf(input.variants[i].fields))
        EnumItem(variants) ==
            IF ~variants.ok THEN variants
            ELSE OkVal([name |-> input.ident,
                        fields |-> <<>>,
                        union |-> <<[variants |-> variants.val[1]]>>,
                        extra_fields |-> extract_extra_fields(input.attrs)])
    IN  CASE input.data = "Struct" -> StructItem(FieldsOf(input.fields))
          [] input.data = "Enum" -> EnumItem(Variants(1, <<>>))
          [] OTHER -> Err("Union types are not supported")

\* Mutant: an item recorded for a file that was not initialized creates it
record_schema_item_Creates(files, input, filename) ==
    LET Pushed(schema_item) ==
            IF ~schema_item.ok THEN [res |-> schema_item, files |-> files]
            ELSE IF filename \in DOMAIN files
            THEN [res |-> OkVal(""),
                  files |-> [files EXCEPT ![filename].items =
                                Append(@, schema_item.val[1])]]
            ELSE [res |-> OkVal(""),
                  files |-> [n \in DOMAIN files \cup {filename} |->
                                IF n = filename
                                THEN [file_id |-> 0,
                                      items |-> <<schema_item.val[1]>>]
                                ELSE files[n]]]
    IN  Pushed(generate_schema_item_with_model(input))

\* Mutant: the item is recorded before the items the file holds
record_schema_item_First(files, input, filename) ==
    LET Pushed(schema_item) ==
            IF ~schema_item.ok THEN [res |-> schema_item, files |-> files]
            ELSE IF filename \in DOMAIN files
            THEN [res |-> OkVal(""),
                  files |-> [files EXCEPT ![filename].items =
                                <<schema_item.val[1]>> \o @]]
            ELSE [res |-> Err("Schema file '" \o filename
                    \o "' not initialized. Did you call capnp_schema_file! first?"),
                  files |-> files]
    IN  Pushed(generate_schema_item_with_model(input))

\* record_schema_item(input, filename) on the map files: what it returns and
\* the map it leaves
record_schema_item(files, input, filename) ==
    LET Pushed(schema_item) ==
            IF ~schema_item.ok THEN [res |-> schema_item, files |-> files]
            ELSE IF filename \in DOMAIN files
            THEN [res |-> OkVal(""),
                  files |-> [files EXCEPT ![filename].items =
                                Append(@, schema_item.val[1])]]
            ELSE [res |-> Err("Schema file '" \o filename
                    \o "' not initialized. Did you call capnp_schema_file! first?"),
                  files |-> files]
    IN  Pushed(generate_schema_item_with_model(input))

\* The types the derive macro is applied to: structs of named fields, of
\* unnamed fields and without fields, enums of unit, tuple and struct
\* variants, with names given, extra fields, ids that are missing or not
\* read, types without a mapping, one id twice, and a union
DeriveInputs ==
    LET Meta(key, lit, value) == [key |-> key, lit |-> lit, value |-> value]
        Capnp(metas) == [path |-> "capnp", metas |-> metas]
        Id(n) == Capnp(<<Meta("id", "Int", n)>>)
        Field(ident, attrs, ty) == [ident |-> ident, attrs |-> attrs, ty |-> ty]
        Fields(kind, list) == [kind |-> kind, list |-> list]
        Variant(ident, attrs, fields) ==
            [ident |-> ident, attrs |-> attrs, fields |-> fields]
        Input(ident, data, fields, variants, attrs) ==
            [ident |-> ident, data |-> data, fields |-> fields,
             variants |-> variants, attrs |-> attrs]
        Struct(ident, kind, list, attrs) ==
            Input(ident, "Struct", Fields(kind, list), <<>>, attrs)
        Enum(ident, variants, attrs) ==
            Input(ident, "Enum", Fields("Unit", <<>>), variants, attrs)
    IN  {Struct("User", "Named",
            <<Field("user_id", <<Id(0)>>, Ident("u64")),
              Field("name",
                    <<Capnp(<<Meta("id", "Int", 1),
                              Meta("name", "Str", "fullName")>>)>>,
                    Ident("String")),
              Field("tag_list", <<Id(2)>>, VecOf(VecOf(Ident("String"))))>>,
            <<Capnp(<<Meta("extra", "Str", "oldId @3 :UInt64")>>),
              [path |-> "derive", metas |-> <<Meta("extra", "Str", "x")>>],
              Capnp(<<Meta("extra", "Str", "gone @4 :Bool")>>)>>),
         Struct("Pair", "Unnamed",
            <<Field("", <<Id(0)>>, Ident("u32")),
              Field("", <<Id(1)>>, Ident("Status"))>>, <<>>),
         Struct("Empty", "Unit", <<>>, <<>>),
         Struct("Twice", "Named",
            <<Field("a", <<Id(0)>>, Ident("bool")),
              Field("b", <<Id(0)>>, Ident("f64"))>>, <<>>),
         Struct("NoId", "Named",
            <<Field("a", <<Id(0)>>, Ident("bool")),
              Field("b", <<Capnp(<<Meta("name", "Str", "c")>>)>>,
                    Ident("i8"))>>, <<>>),
         Struct("IdNotRead", "Named",
            <<Field("first",
                    <<Capnp(<<Meta("version", "Int", 2),
                              Meta("id", "Int", 5)>>)>>,
                    Ident("i16"))>>, <<>>),
         Struct("Borrowed", "Named",
            <<Field("text", <<Id(0)>>, OtherType("Reference"))>>, <<>>),
         Struct("Wide", "Unnamed",
            <<Field("", <<Capnp(<<Meta("skip", "None", ""),
                                  Meta("id", "Int", 7),
                                  Meta("id", "Int", 8)>>)>>,
                    Ident("u128"))>>, <<>>),
         Enum("Status",
            <<Variant("Active", <<Id(0)>>, Fields("Unit", <<>>)),
              Variant("NotActive", <<Id(1)>>, Fields("Unit", <<>>))>>, <<>>),
         Enum("Message",
            <<Variant("TextMessage", <<>>, Fields("Unnamed",
                <<Field("", <<Id(1)>>, Ident("String"))>>)),
              Variant("Image", <<>>, Fields("Named",
                <<Field("url", <<Id(3)>>, Ident("String")),
                  Field("caption_text", <<Id(4)>>, Ident("String"))>>)),
              Variant("Done", <<Id(0)>>, Fields("Unit", <<>>))>>,
            <<Capnp(<<Meta("extra", "Str", "oldVariant @8 :Void")>>)>>),
         Enum("Pending",
            <<Variant("Waiting", <<>>, Fields("Unit", <<>>))>>, <<>>),
         Enum("Shape",
            <<Variant("Circle", <<>>, Fields("Unnamed",
                <<Field("", <<>>, Ident("f32"))>>))>>, <<>>),
         Input("Raw", "Union", Fields("Unit", <<>>), <<>>, <<>>)}

---------------------------------------------------------------------------
(* The shapes a caller passes to the builders                              *)

StructShape(type_identifier, kind, fields, attributes) ==
    [UserShape("Struct", type_identifier, <<>>) EXCEPT
        !.kind = kind, !.fields = fields, !.attributes = attributes]

EnumShape(type_identifier, variants, attributes) ==
    [UserShape("Enum", type_identifier, <<>>) EXCEPT
        !.variants = variants, !.attributes = attributes]

StringShape == UserShape("Opaque", "String", <<>>)
IdAttribute(n) == "capnp : id = " \o ToString(n)
ExtraAttribute(text) == ShapeAttribute(TRUE, "capnp : extra = \"" \o text \o "\"")

\* The attributes of a type: none, extra fields in quotes, an extra field
\* without quotes, an attribute that is not Arbitrary, an empty extra field
ShapeAttributeLists ==
    {<<>>,
     <<ExtraAttribute("oldUserId @1 :UInt64")>>,
     <<ExtraAttribute("oldVariant @8 :Void"),
       ExtraAttribute("deprecatedData @9 :UInt32")>>,
     <<ShapeAttribute(TRUE, "capnp : extra = legacy @9 :Text "),
       ShapeAttribute(FALSE, "capnp : extra = \"hidden @8 :Void\"")>>,
     <<ExtraAttribute(""), ShapeAttribute(TRUE, "deny_unknown_fields")>>}

\* The structs of k fields.  The i-th field has the i-th name; it has an id,
\* or a name override, or no id, or an id that is no number, or two ids, or
\* a type that has no mapping.
StructShapes(k) ==
    LET name == <<"username", "email_address", "is_active", "tags">>
        specs ==
            {<<StringShape, <<IdAttribute(0)>>>>,
             <<StringShape, <<IdAttribute(2)>>>>,
             <<PrimitiveShape("Boolean"), <<IdAttribute(4)>>>>,
             <<UserShape("Opaque", "Vec", <<StringShape>>), <<IdAttribute(5)>>>>,
             <<IntegerShape(2, FALSE), <<IdAttribute(1), "name = years">>>>,
             <<StringShape, <<>>>>,
             <<PointerShape, <<IdAttribute(3)>>>>,
             <<PointerShape, <<>>>>,
             <<IntegerShape(4, FALSE), <<"capnp : id = x">>>>,
             <<IntegerShape(1, FALSE), <<IdAttribute(6), IdAttribute(7)>>>>}
    IN  {StructShape("UserProfile", "Struct",
                     [i \in 1..k |-> ShapeField(name[i], q[i][1], q[i][2])],
                     attributes) :
            q \in [1..k -> specs], attributes \in ShapeAttributeLists}

\* The enums of k variants.  The i-th variant has the i-th name; it is a unit
\* variant, a tuple variant or a struct variant, with an id or without, its
\* fields with ids or without.
EnumShapes(k) ==
    LET name == <<"Active", "TextMessage", "Image", "Done">>
        specs ==
            {<<"Unit", <<IdAttribute(0)>>, <<>>>>,
             <<"Unit", <<IdAttribute(1)>>, <<>>>>,
             <<"Unit", <<>>, <<>>>>,
             <<"Tuple", <<IdAttribute(0)>>,
               <<ShapeField("0", StringShape, <<>>)>>>>,
             <<"Struct", <<IdAttribute(1)>>,
               <<ShapeField("url", StringShape, <<>>),
                 ShapeField("caption", StringShape, <<>>)>>>>,
             <<"Tuple", <<>>,
               <<ShapeField("0", IntegerShape(4, FALSE), <<IdAttribute(10)>>),
                 ShapeField("1", StringShape, <<IdAttribute(11)>>)>>>>,
             <<"Struct", <<>>,
               <<ShapeField("id", IntegerShape(8, FALSE), <<IdAttribute(20)>>),
                 ShapeField("full_name", StringShape, <<IdAttribute(21)>>)>>>>,
             <<"Tuple", <<IdAttribute(3)>>, <<>>>>,
             <<"Tuple", <<>>, <<>>>>,
             <<"Tuple", <<>>, <<ShapeField("0", StringShape, <<>>)>>>>,
             <<"Struct", <<>>,
               <<ShapeField("x_pos", IntegerShape(4, TRUE), <<IdAttribute(1)>>),
                 ShapeField("y_pos", IntegerShape(4, TRUE), <<>>)>>>>}
    IN  {EnumShape("MessageType",
                   [i \in 1..k |-> ShapeVariant(name[i], q[i][2], q[i][1],
                                                q[i][3])],
                   attributes) :
            q \in [1..k -> specs],
            attributes \in {<<>>, <<ExtraAttribute("oldVariant @8 :Void"),
                                    ExtraAttribute("deprecatedData @9 :UInt32")>>}}

\* The types of the module documentation
UserProfile ==
    StructShape("UserProfile", "Struct",
        <<ShapeField("username", StringShape, <<IdAttribute(0)>>),
          ShapeField("email", StringShape, <<IdAttribute(2)>>),
          ShapeField("active", PrimitiveShape("Boolean"), <<IdAttribute(4)>>),
          ShapeField("tags", UserShape("Opaque", "Vec", <<StringShape>>),
                     <<IdAttribute(5)>>)>>,
        <<ExtraAttribute("oldUserId @1 :UInt64"),
          ExtraAttribute("deprecatedFlag @3 :Bool"),
          ExtraAttribute("removedTimestamp @7 :UInt64")>>)

Message ==
    EnumShape("Message",
        <<ShapeVariant("Text", <<IdAttribute(0)>>, "Tuple",
                       <<ShapeField("0", StringShape, <<>>)>>),
          ShapeVariant("Image", <<IdAttribute(1)>>, "Struct",
                       <<ShapeField("url", StringShape, <<>>),
                         ShapeField("caption", StringShape, <<>>)>>)>>,
        <<>>)

\* The types of the tests of build_capnp_file, and a struct with one id twice
TestStruct ==
    StructShape("TestStruct", "Struct",
        <<ShapeField("id", IntegerShape(8, FALSE), <<IdAttribute(0)>>),
          ShapeField("name", StringShape, <<IdAttribute(1), "name = fullName">>),
          ShapeField("numbers",
                     UserShape("Opaque", "Vec", <<IntegerShape(4, TRUE)>>),
                     <<IdAttribute(2)>>),
          ShapeField("active", PrimitiveShape("Boolean"), <<IdAttribute(3)>>)>>,
        <<>>)

Status ==
    EnumShape("Status",
        <<ShapeVariant("Active", <<IdAttribute(0)>>, "Unit", <<>>),
          ShapeVariant("Inactive", <<IdAttribute(1)>>, "Unit", <<>>),
          ShapeVariant("Pending", <<IdAttribute(2)>>, "Unit", <<>>)>>,
        <<>>)

FileShapes ==
    {TestStruct, Status, Message,
     [IntegerShape(4, FALSE) EXCEPT !.type_identifier = "u32"],
     StructShape("EmptyStruct", "Unit", <<>>, <<>>),
     StructShape("Twice", "Struct",
        <<ShapeField("first", StringShape, <<IdAttribute(0)>>),
          ShapeField("second", StringShape, <<IdAttribute(0)>>)>>, <<>>)}

\* File ids: 0x0, 0x42, 0xff, 0xabcd, 0x7fffffff
FileIds == {0, 66, 255, 43981, 2147483647}

---------------------------------------------------------------------------
(* State machine: a caller passes the shape of a type to the builders, or  *)
(* the derive macro is given the declaration of a type                     *)

BuildInit ==
    /\ doc = CapnpDocument_new
    /\ s = CapnpStruct_new("P")
    /\ \/ \E k \in 0..MaxFields : \E sh \in StructShapes(k) : arg = Arg("Shape", sh)
       \/ \E k \in 0..MaxVariants : \E sh \in EnumShapes(k) : arg = Arg("Shape", sh)
       \/ \E attributes \in ShapeAttributeLists :
            arg = Arg("Shape", StructShape("EmptyStruct", "Unit", <<>>, attributes))
       \/ arg \in {Arg("Shape", UserProfile), Arg("Shape", Message),
                   Arg("Shape", [IntegerShape(4, FALSE) EXCEPT
                                    !.type_identifier = "u32"])}
       \/ \E input \in DeriveInputs : arg = Arg("DeriveInput", input)
       \/ \E id \in FileIds : \E k \in 0..MaxShapes :
            \E shapes \in [1..k -> FileShapes] :
                arg = Arg("File", [id |-> id, shapes |-> shapes])
    /\ result = NoCall

\* build_capnp_struct_from_shape(shape)
BuildStruct ==
    /\ arg.kind = "Shape"
    /\ result' = Returned("build_capnp_struct_from_shape",
                          build_capnp_struct_from_shape(arg.val))
    /\ UNCHANGED <<doc, s, arg>>

\* build_capnp_union_from_shape(shape)
BuildUnion ==
    /\ arg.kind = "Shape"
    /\ result' = Returned("build_capnp_union_from_shape",
                          build_capnp_union_from_shape(arg.val))
    /\ UNCHANGED <<doc, s, arg>>

\* capnp_schema_for::<T>()
SchemaFor ==
    /\ arg.kind = "Shape"
    /\ \E r \in capnp_schema_for(arg.val) :
            result' = Returned("capnp_schema_for", r)
    /\ UNCHANGED <<doc, s, arg>>

\* build_capnp_file(id, shapes)
BuildFile ==
    /\ arg.kind = "File"
    /\ \E r \in build_capnp_file(arg.val.id, arg.val.shapes) :
            result' = Returned("build_capnp_file", r)
    /\ UNCHANGED <<doc, s, arg>>

\* generate_capnp_type(input): the value of the generated get_capnp_schema()
GenerateCapnpType ==
    /\ arg.kind = "DeriveInput"
    /\ result' = Returned("generate_capnp_type", generate_capnp_type(arg.val))
    /\ UNCHANGED <<doc, s, arg>>

\* generate_schema_item_with_model(input)
GenerateSchemaItem ==
    /\ arg.kind = "DeriveInput"
    /\ result' = Returned("generate_schema_item_with_model",
                          generate_schema_item_with_model(arg.val))
    /\ UNCHANGED <<doc, s, arg>>

BuildNext ==
    \/ BuildStruct
    \/ BuildUnion
    \/ SchemaFor
    \/ BuildFile
    \/ GenerateCapnpType
    \/ GenerateSchemaItem

BuildSpec == BuildInit /\ [][BuildNext]_vars

---------------------------------------------------------------------------
(* C19: an id is required on every field and on every unit variant.        *)
(* build_capnp_struct_from_shape returns an error, and no struct, for a    *)
(* struct with a field without a capnp id; when the fields before the      *)
(* first such field are converted, the error names that field.             *)
(* build_capnp_union_from_shape returns an error, and no struct, for an    *)
(* enum with a unit variant without a capnp id; when the variants before   *)
(* the first such variant are converted, the error names that variant.     *)
(* No id is invented.                                                      *)

IsStructShape(shape) == shape.ty = "User" /\ shape.sub = "Struct"
IsEnumShape(shape) == shape.ty = "User" /\ shape.sub = "Enum"

FieldLacksId(field) == capnp_overrides_from_attrs(field).id = <<>>

UnitLacksId(variant) ==
    ~variant_has_data(variant)
        /\ extract_capnp_id_from_variant_attrs(variant) = <<>>

\* The first position of seq that satisfies Test, 0 if there is none
FirstWhere(seq, Test(_)) ==
    IF \E i \in 1..Len(seq) : Test(seq[i])
    THEN CHOOSE i \in 1..Len(seq) :
            Test(seq[i]) /\ \A j \in 1..(i - 1) : ~Test(seq[j])
    ELSE 0

C19_IdRequired ==
    /\ (Called("build_capnp_struct_from_shape") /\ IsStructShape(arg.val)) =>
            LET fields == arg.val.fields
                i == FirstWhere(fields, FieldLacksId)
            IN  i > 0 =>
                    /\ ~Ret.ok
                    /\ Ret.val = <<>>
                    /\ (\A j \in 1..(i - 1) :
                            shape_to_capnp_type(fields[j].shape).ok)
                          => Ret.err = <<"Field '" \o fields[i].name
                                         \o "' missing required capnp:id attribute. Use #[facet(capnp:id=N)]">>
    /\ (Called("build_capnp_union_from_shape") /\ IsEnumShape(arg.val)) =>
            LET variants == arg.val.variants
                i == FirstWhere(variants, UnitLacksId)
            IN  i > 0 =>
                    /\ ~Ret.ok
                    /\ Ret.val = <<>>
                    /\ build_capnp_union_from_shape(
                            [arg.val EXCEPT !.variants = SubSeq(variants, 1, i - 1)]).ok
                          => Ret.err = <<"Unit variant '" \o variants[i].name
                                         \o "' missing required capnp:id attribute. Use #[facet(capnp:id=N)]">>

\* The second field of a struct has no id, the first one is converted
C19_Witness ==
    /\ Called("build_capnp_struct_from_shape")
    /\ IsStructShape(arg.val)
    /\ Len(arg.val.fields) = 2
    /\ ~FieldLacksId(arg.val.fields[1])
    /\ FieldLacksId(arg.val.fields[2])
    /\ Ret = Err("Field 'email_address' missing required capnp:id attribute. Use #[facet(capnp:id=N)]")

---------------------------------------------------------------------------
(* C20: build_capnp_union_from_shape turns an enum into a struct holding a *)
(* union: in declaration order, every unit variant becomes a Void variant  *)
(* with its id and every variant with data becomes a group.  An enum whose *)
(* variants all carry capnp:id=N, the variants with data included, as the  *)
(* Message enum of the module documentation, is accepted, and each of its  *)
(* variants with data is rendered as '<name> :group @N {'.                 *)

\* Every variant carries an id, and some variant has data
AnnotatedAsMessage(shape) ==
    /\ IsEnumShape(shape)
    /\ \A i \in 1..Len(shape.variants) :
            extract_capnp_id_from_variant_attrs(shape.variants[i]) # <<>>
    /\ \E i \in 1..Len(shape.variants) : variant_has_data(shape.variants[i])

C20_EnumBecomesUnion ==
    /\ (Called("build_capnp_union_from_shape") /\ IsEnumShape(arg.val)
            /\ Ret.ok) =>
            LET variants == arg.val.variants
                st == Ret.val[1]
            IN  /\ st.name = arg.val.type_identifier
                /\ st.fields = <<>>
                /\ Len(st.union) = 1
                /\ Len(st.union[1].variants) = Len(variants)
                /\ \A i \in 1..Len(variants) :
                        LET built == st.union[1].variants[i]
                        IN  /\ built.name = to_lower_camel_case(variants[i].name)
                            /\ IF variant_has_data(variants[i])
                               THEN built.variant_inner.kind = "Group"
                               ELSE built.variant_inner =
                                        [kind |-> "Type",
                                         id |-> extract_capnp_id_from_variant_attrs(
                                                    variants[i])[1],
                                         capnp_type |-> Prim("Void")]
    /\ (Called("build_capnp_union_from_shape") /\ AnnotatedAsMessage(arg.val))
            => Ret.ok
    /\ (Called("capnp_schema_for") /\ AnnotatedAsMessage(arg.val)) =>
            /\ Ret.ok
            /\ \A i \in 1..Len(arg.val.variants) :
                    LET variant == arg.val.variants[i]
                        id == extract_capnp_id_from_variant_attrs(variant)[1]
                    IN  variant_has_data(variant) =>
                            \E k \in DOMAIN Lines(Ret.val[1]) :
                                EndsWith(Lines(Ret.val[1])[k],
                                         " :group @" \o ToString(id) \o " {")

---------------------------------------------------------------------------
(* C15: the extra fields of a struct are written one per line, in the      *)
(* order they were added, after the fields and the union of the struct and *)
(* before the closing brace; each line is two spaces, the text as given    *)
(* and a semicolon.                                                        *)

\* The struct capnp_schema_for renders for the shape
BuiltStruct(shape) == build_capnp_document_from_shape(shape).val[1][1]

WithoutExtras(st) == [st EXCEPT !.extra_fields = <<>>]

\* The lines of text are those of the struct without its extra fields, with
\* one line per extra field before the closing brace
ExtrasBeforeBrace(text, st, ExtraLine(_)) ==
    LET lines == Lines(text)
        n == Len(lines)
        k == Len(st.extra_fields)
    IN  /\ n >= k + 2
        /\ lines[n] = "}"
        /\ SubSeq(lines, 1, n - 1 - k) \o <<"}">>
                = Lines(Struct_text(WithoutExtras(st)))
        /\ \A j \in 1..k : lines[n - 1 - k + j] = ExtraLine(st.extra_fields[j])

IndentedWithSemicolon(extra) == "  " \o extra \o ";"

C15_ExtraLines ==
    (Called("capnp_schema_for") /\ Ret.ok) =>
        ExtrasBeforeBrace(Ret.val[1], BuiltStruct(arg.val), IndentedWithSemicolon)

\* The claim as the specification words it: each line is the text as given
AsGiven(extra) == extra

C15_ExtraLinesAsGiven ==
    (Called("capnp_schema_for") /\ Ret.ok) =>
        ExtrasBeforeBrace(Ret.val[1], BuiltStruct(arg.val), AsGiven)

\* test_comprehensive_extra_fields_example
C15_Witness ==
    /\ Called("capnp_schema_for")
    /\ arg.val = UserProfile
    /\ BuiltStruct(arg.val).extra_fields
            = <<"oldUserId @1 :UInt64", "deprecatedFlag @3 :Bool",
                "removedTimestamp @7 :UInt64">>
    /\ Ret = OkText("struct UserProfile {\n  username @0 :Text;\n  email @2 :Text;\n  active @4 :Bool;\n  tags @5 :List(Text);\n  oldUserId @1 :UInt64;\n  deprecatedFlag @3 :Bool;\n  removedTimestamp @7 :UInt64;\n}\n")

---------------------------------------------------------------------------
(* C21: build_capnp_file returns the header line "@0x<file id in lowercase *)
(* hexadecimal>;", one blank line and then the rendered body of the schema *)
(* of the built items; with no shapes the text is the header and the blank *)
(* line alone; when an item cannot be built, or the schema is not valid,   *)
(* the call returns an error and no text.                                  *)

\* The value of a text of lowercase hexadecimal digits, -1 for another text
HexValue(digits) ==
    LET RECURSIVE Upto(_)
        Upto(n) ==
            LET d == IndexIn(SubSeq(digits, n, n), "0123456789abcdef")
            IN  IF n = 0 THEN 0
                ELSE IF d = 0 \/ Upto(n - 1) < 0 THEN -1
                ELSE Upto(n - 1) * 16 + (d - 1)
    IN  IF Len(digits) = 0 THEN -1 ELSE Upto(Len(digits))

\* text is "@0x", the digits of id, ";" and a blank line, then body
HeaderThenBody(text, id, body) ==
    \E n \in 1..8 :
        /\ Len(text) = n + 6 + Len(body)
        /\ SubSeq(text, 1, 3) = "@0x"
        /\ HexValue(SubSeq(text, 4, n + 3)) = id
        /\ (n > 1 => SubSeq(text, 4, 4) # "0")
        /\ SubSeq(text, n + 4, n + 6) = ";\n\n"
        /\ SubSeq(text, n + 7, Len(text)) = body

\* The items of the shapes, when every one of them is built
ItemsOf(shapes) ==
    [i \in 1..Len(shapes) |->
        build_capnp_document_from_shape(shapes[i]).val[1][1]]

C21_FileHeaderThenBody ==
    Called("build_capnp_file") =>
        LET id == arg.val.id
            shapes == arg.val.shapes
            built == \A i \in 1..Len(shapes) :
                        build_capnp_document_from_shape(shapes[i]).ok
        IN  /\ Ret.ok =>
                /\ built
                /\ \E r \in Schema_render(ItemsOf(shapes)) :
                        r.ok /\ HeaderThenBody(Ret.val[1], id, r.val[1])
            /\ (Ret.ok /\ shapes = <<>>) => HeaderThenBody(Ret.val[1], id, "")
            /\ (Ret.ok /\ id = 66 /\ shapes = <<>>) => Ret.val[1] = "@0x42;\n\n"
            /\ ~built => IsError(Ret)
            /\ (built /\ \A r \in Schema_render(ItemsOf(shapes)) : ~r.ok)
                    => IsError(Ret)
            /\ (built /\ \A r \in Schema_render(ItemsOf(shapes)) : r.ok)
                    => Ret.ok

\* A file of two items whose id has letters among its hexadecimal digits
C21_Witness ==
    /\ Called("build_capnp_file")
    /\ Ret.ok
    /\ arg.val.id = 43981
    /\ arg.val.shapes = <<TestStruct, Status>>
    /\ SubSeq(Ret.val[1], 1, 10) = "@0xabcd;\n\n"

---------------------------------------------------------------------------
(* C22: a Group variant without a discriminant id of its own contributes   *)
(* no id for the variant itself.  Validation records only the ids of the   *)
(* fields of the group: no error names the location "union variant         *)
(* '<name>'" of a group, and the schema of an enum is valid exactly when   *)
(* the ids of its unit variants and of the fields of its groups are all    *)
(* different.  The line of a group is written without the @<id> token.     *)

Occurs(sub, text) ==
    \E i \in 1..(Len(text) - Len(sub) + 1) :
        SubSeq(text, i, i + Len(sub) - 1) = sub

\* The ids a union holds: that of each Type variant, those of the fields of
\* each Group variant
UnionIds(variants) ==
    LET RECURSIVE From(_)
        From(i) ==
            IF i > Len(variants) THEN <<>>
            ELSE (IF variants[i].variant_inner.kind = "Type"
                  THEN <<variants[i].variant_inner.id>>
                  ELSE [j \in 1..Len(variants[i].variant_inner.fields) |->
                            variants[i].variant_inner.fields[j].id])
                    \o From(i + 1)
    IN  From(1)

AllDifferent(ids) ==
    \A i, j \in 1..Len(ids) : ids[i] = ids[j] => i = j

GroupLineWithoutId(text, variant) ==
    \E k \in 1..Len(Lines(text)) :
        Lines(text)[k] =
            "    " \o variant.name
                \o (IF variant.variant_inner.fields = <<>>
                    THEN " :group {};" ELSE " :group {")

C22_GroupWithoutId ==
    (/\ Called("capnp_schema_for")
     /\ IsEnumShape(arg.val)
     /\ build_capnp_union_from_shape(arg.val).ok) =>
        LET variants == BuiltStruct(arg.val).union[1].variants
            groups == {i \in 1..Len(variants) :
                            variants[i].variant_inner.kind = "Group"}
        IN  /\ Ret.ok <=> AllDifferent(UnionIds(variants))
            /\ Ret.ok =>
                \A i \in groups :
                    /\ GroupLineWithoutId(Ret.val[1], variants[i])
                    /\ ~Occurs(variants[i].name \o " :group @", Ret.val[1])
                    /\ ~Occurs(variants[i].name \o " @", Ret.val[1])
            /\ ~Ret.ok =>
                \A i \in groups :
                    ~Occurs(VariantLocation(variants[i]), Ret.err[1])

\* Two groups without an id that share the ids of their fields
C22_Witness ==
    /\ Called("capnp_schema_for")
    /\ IsEnumShape(arg.val)
    /\ build_capnp_union_from_shape(arg.val).ok
    /\ LET variants == BuiltStruct(arg.val).union[1].variants
       IN  /\ Len(variants) = 2
           /\ \A i \in 1..2 : variants[i].variant_inner.kind = "Group"
           /\ ~Ret.ok
           /\ Occurs("union group '" \o variants[1].name, Ret.err[1])
           /\ Occurs("union group '" \o variants[2].name, Ret.err[1])

---------------------------------------------------------------------------
(* C23: CapnpStruct::validate is consistent about the conflict it reports. *)
(* When a call of validate or of render on a struct returns a DuplicateId  *)
(* error, the next call of validate or of render on the same struct        *)
(* returns the DuplicateId error of the same id with the same locations.   *)

C23_SameConflictEveryCall ==
    [][(/\ result.op \in {"struct_validate", "struct_render"}
        /\ result'.op \in {"struct_validate", "struct_render"}
        /\ s' = s
        /\ ~Ret.ok)
            => result'.res = result.res]_vars

---------------------------------------------------------------------------
(* C24: validate and render never change their input.  Every call, whether *)
(* it succeeds or fails, leaves the document and the struct, with their    *)
(* fields, unions and variants, as they were, and a render that follows a  *)
(* render of the same value returns the same result.                       *)

\* The frame alone: no call changes the struct or the document
C24_InputUnchanged ==
    [][doc' = doc /\ s' = s]_vars

C24_NeverMutates ==
    [][/\ doc' = doc
       /\ s' = s
       /\ (Called("struct_render") /\ result'.op = "struct_render")
            => result'.res = result.res
       /\ (Called("doc_render") /\ result'.op = "doc_render")
            => result'.res = result.res]_vars

---------------------------------------------------------------------------
(* State machine: a caller builds the model step by step.  s is the struct *)
(* under construction, arg the union under construction, doc the items of  *)
(* the document; result.res is the list of the calls made so far, each     *)
(* with the value it was given.                                            *)

ModelInit ==
    /\ doc = CapnpDocument_new
    /\ s = CapnpStruct_new("P")
    /\ arg = Arg("CapnpUnion", CapnpUnion_new)
    /\ result = [op |-> "calls", res |-> <<>>]

\* s.add_field(field)
AddField ==
    /\ Len(result.res) < MaxCalls
    /\ \E field \in {CapnpField_new("a", 0, Prim("Text")),
                     CapnpField_new("b", 1, List(Prim("Bool")))} :
        /\ s' = CapnpStruct_add_field(s, field)
        /\ result' = [result EXCEPT
                        !.res = Append(@, [op |-> "add_field", val |-> field])]
    /\ UNCHANGED <<doc, arg>>

\* union.add_variant(variant)
AddVariant ==
    /\ Len(result.res) < MaxCalls
    /\ \E variant \in
            {CapnpUnionVariant_new("v", 0, Prim("Void")),
             CapnpUnionVariant_new_group("w", 1,
                <<CapnpField_new("x", 2, Prim("UInt32"))>>)} :
        /\ arg' = [arg EXCEPT !.val = CapnpUnion_add_variant(@, variant)]
        /\ result' = [result EXCEPT
                        !.res = Append(@, [op |-> "add_variant",
                                           val |-> variant])]
    /\ UNCHANGED <<doc, s>>

\* s.set_union(union.clone())
SetUnion ==
    /\ Len(result.res) < MaxCalls
    /\ s' = CapnpStruct_set_union(s, arg.val)
    /\ result' = [result EXCEPT
                    !.res = Append(@, [op |-> "set_union", val |-> arg.val])]
    /\ UNCHANGED <<doc, arg>>

\* document.add_item(CapnpItem::Struct(s.clone()))
AddItem ==
    /\ Len(result.res) < MaxCalls
    /\ doc' = CapnpDocument_add_item(doc, s)
    /\ result' = [result EXCEPT
                    !.res = Append(@, [op |-> "add_item", val |-> s])]
    /\ UNCHANGED <<s, arg>>

ModelNext ==
    \/ AddField
    \/ AddVariant
    \/ SetUnion
    \/ AddItem

ModelSpec == ModelInit /\ [][ModelNext]_vars

---------------------------------------------------------------------------
(* C25: the model is built step by step and keeps the order of the calls.  *)
(* After any sequence of add_item, add_field, add_variant and set_union    *)
(* calls the items of the document, the fields of the struct and the       *)
(* variants of the union are the values added, in the order of the calls,  *)
(* none dropped, moved or merged; the struct holds at most one union, the  *)
(* one of the last set_union, and set_union leaves the name and the fields *)
(* as they were.                                                           *)

\* The values given to the calls of op, in the order of the calls
ValuesOf(calls, op) ==
    LET RECURSIVE From(_)
        From(i) ==
            IF i > Len(calls) THEN <<>>
            ELSE (IF calls[i].op = op THEN <<calls[i].val>> ELSE <<>>)
                    \o From(i + 1)
    IN  From(1)

C25_CallOrderKept ==
    LET calls == result.res
        unions == ValuesOf(calls, "set_union")
    IN  /\ doc = ValuesOf(calls, "add_item")
        /\ s.fields = ValuesOf(calls, "add_field")
        /\ arg.val.variants = ValuesOf(calls, "add_variant")
        /\ s.name = "P"
        /\ Len(s.union) <= 1
        /\ s.union = IF unions = <<>> THEN <<>>
                     ELSE <<unions[Len(unions)]>>

\* set_union changes the union alone
C25_SetUnionFrame ==
    [][(Len(result'.res) > Len(result.res)
            /\ result'.res[Len(result'.res)].op = "set_union")
        => (s'.name = s.name /\ s'.fields = s.fields
            /\ s'.union = <<arg.val>> /\ doc' = doc)]_vars

\* A field added twice, and a second set_union that replaced the first union
C25_Witness ==
    /\ Len(s.fields) = 2
    /\ s.fields[1] = s.fields[2]
    /\ Len(ValuesOf(result.res, "set_union")) = 2
    /\ ValuesOf(result.res, "set_union")[1] # ValuesOf(result.res, "set_union")[2]
    /\ s.union = <<ValuesOf(result.res, "set_union")[2]>>

---------------------------------------------------------------------------
(* C26: the fields of the struct that build_capnp_struct_from_shape        *)
(* returns are in the order in which the shape declares them, each with    *)
(* the id of its annotation, so that they are in ascending order of id    *)
(* only when the shape declares them so.                                   *)

FieldIds(fields) == [i \in 1..Len(fields) |-> fields[i].id]

Ascending(ids) == \A i, j \in 1..Len(ids) : i < j => ids[i] < ids[j]

\* The id of the annotation of each field, <<>> for a field without one
AnnotatedIds(shape) ==
    [i \in 1..Len(shape.fields) |->
        capnp_overrides_from_attrs(shape.fields[i]).id]

---------------------------------------------------------------------------
(* State machine: the macros of code-first-capnp-macros are expanded one   *)
(* after the other, in any order (SCHEMA_FILES is behind a Mutex).  doc is *)
(* SCHEMA_FILES, a map from file names to (file_id, items); s is the       *)
(* manifest directory: the files written and the files given to capnpc;    *)
(* arg is the macro expanded last, with its input and the number of        *)
(* expansions so far; result is what that expansion returned: its tokens   *)
(* or a compile error.                                                     *)

RegInit ==
    /\ doc = EmptyMap
    /\ s = [written |-> <<>>, compiled |-> <<>>]
    /\ arg = [kind |-> "none", val |-> <<>>, calls |-> 0]
    /\ result = NoCall

\* capnp_schema_file!(filename, file_id)
CapnpSchemaFile ==
    /\ arg.calls < MaxMacros
    /\ \E input \in {<<[lit |-> "Str", value |-> "a.capnp"],
                       [lit |-> "Int", value |-> 66]>>,
                     <<[lit |-> "Str", value |-> "a.capnp"],
                       [lit |-> "Int", value |-> 255]>>,
                     <<[lit |-> "Str", value |-> "b.capnp"],
                       [lit |-> "Int", value |-> 66]>>,
                     <<[lit |-> "Str", value |-> "b.capnp"]>>,
                     <<[lit |-> "Int", value |-> 66]>>} :
        /\ arg' = [kind |-> "capnp_schema_file", val |-> input,
                   calls |-> arg.calls + 1]
        /\ IF Len(input) < 1 \/ input[1].lit # "Str"
           THEN /\ result' = Returned("capnp_schema_file",
                        Err("First argument must be a string literal"))
                /\ doc' = doc
           ELSE IF Len(input) < 2 \/ input[2].lit # "Int"
           THEN /\ result' = Returned("capnp_schema_file",
                        Err("Second argument must be an integer literal"))
                /\ doc' = doc
           ELSE /\ result' = Returned("capnp_schema_file", OkVal(""))
                /\ doc' = [n \in DOMAIN doc \cup {input[1].value} |->
                            IF n = input[1].value
                            THEN [file_id |-> input[2].value, items |-> <<>>]
                            ELSE doc[n]]
    /\ UNCHANGED s

\* #[derive(CapnpType)] on a type, with #[capnp(file = "..")] or without:
\* derive_capnp_type, extract_schema_filename and record_schema_item
DeriveCapnpType ==
    /\ arg.calls < MaxMacros
    /\ \E item \in {i \in DeriveInputs :
                        i.ident \in {"Pair", "Empty", "Twice", "NoId", "Raw"}} :
       \E file \in {"", "a.capnp", "b.capnp", "c.capnp"} :
        LET input ==
                IF file = "" THEN item
                ELSE [item EXCEPT !.attrs = Append(@,
                        [path |-> "capnp",
                         metas |-> <<[key |-> "file", lit |-> "Str",
                                      value |-> file]>>])]
            RECURSIVE extract_schema_filename(_)
            extract_schema_filename(i) ==
                LET Found(names) ==
                        IF names # <<>> THEN OkVal(names[Len(names)])
                        ELSE extract_schema_filename(i + 1)
                IN  IF i > Len(input.attrs)
                    THEN Err("No capnp file attribute found")
                    ELSE Found(NestedMetaValues(input.attrs[i], "file", "Str"))
            Recorded(tokens, recorded) ==
                /\ result' = Returned("derive_capnp_type",
                        IF recorded.res.ok THEN tokens ELSE recorded.res)
                /\ doc' = recorded.files
            Generated(tokens, filename) ==
                IF ~tokens.ok \/ ~filename.ok
                THEN /\ result' = Returned("derive_capnp_type", tokens)
                     /\ doc' = doc
                ELSE Recorded(tokens,
                              record_schema_item(doc, input, filename.val[1]))
        IN  /\ file = "b.capnp" => item.ident = "Pair"
            /\ file = "c.capnp" => item.ident = "Empty"
            /\ arg' = [kind |-> "derive_capnp_type", val |-> input,
                       calls |-> arg.calls + 1]
            /\ Generated(generate_capnp_type(input), extract_schema_filename(1))
    /\ UNCHANGED s

\* complete_capnp_schema!(filename, module declaration).  fs::write and the
\* schema compiler succeed or fail (io).
CompleteCapnpSchema ==
    /\ arg.calls < MaxMacros
    /\ \E input \in {<<[lit |-> "Str", value |-> "a.capnp"], ",">>,
                     <<[lit |-> "Str", value |-> "b.capnp"], ",">>,
                     <<[lit |-> "Str", value |-> "a.capnp"]>>,
                     <<>>} :
       \E io \in {"ok", "write fails", "capnpc fails"} :
        LET Digit(d) == SubSeq("0123456789abcdef", d + 1, d + 1)
            RECURSIVE LowerHex(_)
            LowerHex(n) ==
                IF n < 16 THEN Digit(n)
                ELSE LowerHex(n \div 16) \o Digit(n % 16)
            filename == input[1].value
            \* filename.trim_end_matches(".capnp")
            RECURSIVE trim_end(_)
            trim_end(str) ==
                IF Len(str) >= 6 /\ SubSeq(str, Len(str) - 5, Len(str)) = ".capnp"
                THEN trim_end(SubSeq(str, 1, Len(str) - 6))
                ELSE str
            Written(full_content) ==
                IF io = "write fails"
                THEN /\ result' = Returned("complete_capnp_schema",
                            Err("Failed to write schema file: " \o io))
                     /\ s' = s
                ELSE IF io = "capnpc fails"
                THEN /\ result' = Returned("complete_capnp_schema",
                            Err("Failed to compile schema with capnpc: " \o io))
                     /\ s' = [s EXCEPT !.written = Append(@,
                                [path |-> filename, content |-> full_content])]
                ELSE /\ result' = Returned("complete_capnp_schema",
                            OkVal("../" \o trim_end(filename) \o "_capnp.rs"))
                     /\ s' = [written |-> Append(s.written,
                                [path |-> filename, content |-> full_content]),
                              compiled |-> Append(s.compiled, filename)]
            Rendered(file_id, schema_content) ==
                IF ~schema_content.ok
                THEN /\ result' = Returned("complete_capnp_schema",
                            Err("Failed to render schema: "
                                \o ValidationError_to_string(
                                        schema_content.err[1])))
                     /\ s' = s
                ELSE Written("@0x" \o LowerHex(file_id) \o ";\n\n"
                                \o schema_content.val[1])
        IN  /\ arg' = [kind |-> "complete_capnp_schema", val |-> input,
                       calls |-> arg.calls + 1]
            /\ IF Len(input) < 1
               THEN /\ result' = Returned("complete_capnp_schema",
                            Err("First argument must be a string literal"))
                    /\ s' = s
               ELSE IF Len(input) < 2
               THEN /\ result' = Returned("complete_capnp_schema",
                            Err("Expected comma after filename"))
                    /\ s' = s
               ELSE IF filename \notin DOMAIN doc
               THEN /\ result' = Returned("complete_capnp_schema",
                            Err("No schema file '" \o filename
                                \o "' found. Did you call capnp_schema_file! first?"))
                    /\ s' = s
               ELSE \E schema_content \in Schema_render(doc[filename].items) :
                        Rendered(doc[filename].file_id, schema_content)
    /\ UNCHANGED doc

RegNext ==
    \/ CapnpSchemaFile
    \/ DeriveCapnpType
    \/ CompleteCapnpSchema

RegSpec == RegInit /\ [][RegNext]_vars

---------------------------------------------------------------------------
(* Reading a step of the registry                                          *)

\* The file name of the file attribute that DeriveCapnpType gave the input
FileOf(input) ==
    LET n == Len(input.attrs)
    IN  IF n > 0 /\ input.attrs[n].path = "capnp"
                 /\ input.attrs[n].metas # <<>>
                 /\ input.attrs[n].metas[1].key = "file"
        THEN <<input.attrs[n].metas[1].value>>
        ELSE <<>>

\* capnp_schema_file! has just initialized a file
Initializes ==
    arg'.kind = "capnp_schema_file" /\ arg'.calls > arg.calls
        /\ result'.res[1].ok

\* derive has just been expanded on a type with a file attribute
RegistersFor(filename) ==
    arg'.kind = "derive_capnp_type" /\ arg'.calls > arg.calls
        /\ FileOf(arg'.val) = <<filename>>

\* complete_capnp_schema! has just been expanded for a file name
CompletesFor(filename) ==
    arg'.kind = "complete_capnp_schema" /\ arg'.calls > arg.calls
        /\ Len(arg'.val) = 2 /\ arg'.val[1].value = filename

RegFileNames == {"a.capnp", "b.capnp", "c.capnp"}

---------------------------------------------------------------------------
(* C27: the registry follows an accumulate-then-flush lifecycle.  For each *)
(* file name the accumulator is created once and flushed once: no          *)
(* expansion of capnp_schema_file! creates an accumulator for a name that  *)
(* has one, and no expansion of complete_capnp_schema! writes the file of  *)
(* a name whose file has been written.                                     *)

C27_CreatedOnceFlushedOnce ==
    [][/\ Initializes => arg'.val[1].value \notin DOMAIN doc
       /\ \A n \in RegFileNames :
            (CompletesFor(n) /\ Len(s'.written) > Len(s.written))
                => \A k \in 1..Len(s.written) : s.written[k].path # n]_vars

---------------------------------------------------------------------------
(* C28: registering or flushing for a file name that is not initialized is *)
(* an error that changes nothing.  A derive with a file attribute naming a *)
(* file that capnp_schema_file! did not initialize returns an error and    *)
(* leaves the registry as it was, no entry created; complete_capnp_schema! *)
(* for such a name returns an error, writes no file and does not run the   *)
(* schema compiler.                                                        *)

C28_UninitializedIsError ==
    [][\A n \in RegFileNames :
        n \notin DOMAIN doc =>
            /\ RegistersFor(n) =>
                /\ ~result'.res[1].ok
                /\ doc' = doc
            /\ CompletesFor(n) =>
                /\ ~result'.res[1].ok
                /\ doc' = doc
                /\ s' = s]_vars

\* The derive of a type that can be recorded, for a file never initialized
C28_Witness ==
    /\ arg.kind = "derive_capnp_type"
    /\ FileOf(arg.val) = <<"c.capnp">>
    /\ generate_schema_item_with_model(arg.val).ok
    /\ Ret = Err("Schema file 'c.capnp' not initialized. Did you call capnp_schema_file! first?")
    /\ "c.capnp" \notin DOMAIN doc
    /\ "a.capnp" \in DOMAIN doc

\* complete_capnp_schema! for a file never initialized
C28_WitnessComplete ==
    /\ arg.kind = "complete_capnp_schema"
    /\ Ret = Err("No schema file 'b.capnp' found. Did you call capnp_schema_file! first?")
    /\ "b.capnp" \notin DOMAIN doc
    /\ s.written = <<>>

---------------------------------------------------------------------------
(* C29: under any interleaving of the three macros for several file names, *)
(* the items flushed for a file name are the items registered for that     *)
(* name since its last initialization, in the order of registration, with  *)
(* the file id given at that initialization.  Step by step:                *)
(* capnp_schema_file! leaves the name with its file id and no items,       *)
(* discarding the items of an initialized name, and the other names as     *)
(* they were; a derive that records appends its item to the items of its   *)
(* file name alone; every other expansion leaves the registry as it was;   *)
(* complete_capnp_schema! writes the header of the file id of its name and *)
(* the text of the items of its name.                                      *)

C29_FlushedAsRegistered ==
    [][/\ Initializes =>
            /\ DOMAIN doc' = DOMAIN doc \cup {arg'.val[1].value}
            /\ doc'[arg'.val[1].value] =
                    [file_id |-> arg'.val[2].value, items |-> <<>>]
            /\ \A m \in DOMAIN doc \ {arg'.val[1].value} : doc'[m] = doc[m]
       /\ (arg'.kind = "capnp_schema_file" /\ ~result'.res[1].ok)
            => doc' = doc
       /\ \A n \in RegFileNames :
            /\ (RegistersFor(n) /\ result'.res[1].ok) =>
                /\ n \in DOMAIN doc
                /\ DOMAIN doc' = DOMAIN doc
                /\ doc'[n].file_id = doc[n].file_id
                /\ doc'[n].items = Append(doc[n].items, result'.res[1].val[1])
                /\ \A m \in DOMAIN doc \ {n} : doc'[m] = doc[m]
            /\ (RegistersFor(n) /\ ~result'.res[1].ok) => doc' = doc
            /\ CompletesFor(n) =>
                /\ doc' = doc
                /\ Len(s'.written) > Len(s.written) =>
                    /\ s'.written = Append(s.written,
                                           s'.written[Len(s'.written)])
                    /\ s'.written[Len(s'.written)].path = n
                    /\ \E body \in Schema_render(doc[n].items) :
                        /\ body.ok
                        /\ HeaderThenBody(
                                s'.written[Len(s'.written)].content,
                                doc[n].file_id, body.val[1])
       /\ (arg'.kind = "derive_capnp_type" /\ FileOf(arg'.val) = <<>>)
            => doc' = doc]_vars

\* The file of a name, written with its file id and the two items
\* registered for it, in the order of their registration
C29_Witness ==
    /\ arg.kind = "complete_capnp_schema"
    /\ Ret.ok
    /\ Len(s.written) = 1
    /\ s.written[1].path = "a.capnp"
    /\ Len(doc["a.capnp"].items) = 2
    /\ doc["a.capnp"].items[1].name = "Pair"
    /\ doc["a.capnp"].items[2].name = "Empty"
    /\ HeaderThenBody(s.written[1].content, doc["a.capnp"].file_id,
            "struct Pair {\n  field0 @0 :UInt32;\n  field1 @1 :Status;\n}\n"
                \o "\nstruct Empty {\n}\n")

---------------------------------------------------------------------------
(* C30: the two generation paths of the derive macro agree.  For every     *)
(* struct and enum the SchemaItem that generate_schema_item_with_model     *)
(* builds for the registry is the SchemaItem that the generated            *)
(* get_capnp_schema() returns: the same name, the same fields with their   *)
(* names, ids and types in the same order, the same variants with their    *)
(* names and kinds, the same extra lines; and one path returns an error    *)
(* exactly when the other does.                                            *)

SameItem(a, b) ==
    /\ a.ok <=> b.ok
    /\ a.ok =>
        /\ a.val[1].name = b.val[1].name
        /\ a.val[1].fields = b.val[1].fields
        /\ a.val[1].union = b.val[1].union
        /\ a.val[1].extra_fields = b.val[1].extra_fields
        /\ a.val[1] = b.val[1]

C30_GenerationPathsAgree ==
    /\ Called("generate_capnp_type") =>
            SameItem(Ret, generate_schema_item_with_model(arg.val))
    /\ Called("generate_schema_item_with_model") =>
            SameItem(generate_capnp_type(arg.val), Ret)

\* An enum of a tuple variant, a struct variant and a unit variant
C30_Witness ==
    /\ Called("generate_capnp_type")
    /\ arg.val.data = "Enum"
    /\ Ret.ok
    /\ Len(Ret.val[1].union[1].variants) = 3
    /\ Ret.val[1].union[1].variants[1].name = "textMessage"
    /\ Ret.val[1].union[1].variants[1].variant_inner.kind = "Group"
    /\ Ret.val[1].union[1].variants[3].variant_inner.kind = "Type"
    /\ Ret.val[1].extra_fields = <<"oldVariant @8 :Void">>

=============================================================================
